---------------------------- MODULE Spec2Model ----------------------------
(***************************************************************************)
(* EazyBooks client: the transaction service over the hosted document      *)
(* store (collections 'transactions' and 'transactionCounters'), the two   *)
(* dialogs that call it, and the recurrence calculator of standing orders. *)
(*                                                                         *)
(* Amounts are integers (gross values are multiples of 6, so that          *)
(* gross / 1.2 is exact); a Date is <<year, month, day>> with the month    *)
(* counted from 0 as the platform's Date does, at day granularity.         *)
(***************************************************************************)
EXTENDS Integers, Sequences, FiniteSets, TLC

(***************************************************************************)
(* Bounds of the model.                                                    *)
(***************************************************************************)
\* a counter is not read (and so not raised) once it has reached this value
MaxCounter == 2
\* updateNextDueDate is applied at most this many times to one entry
MaxApply == 4

Users == {"u1", "u2"}
\* two sessions (browser tabs), both of user u1; u2 is a user whose data is
\* in the store and who is not active
Sessions == {"s1", "s2"}
SessionUser == [s \in Sessions |-> "u1"]
\* getCurrentUser() resolves to null when nobody is signed in
NoUser == ""

Years == 2023 .. 2024

(***************************************************************************)
(* Calendar arithmetic of the platform's Date.                             *)
(***************************************************************************)
IsLeap(y) == (y % 4 = 0 /\ y % 100 # 0) \/ y % 400 = 0

DaysInMonth(y, m) ==
  IF m = 1 THEN (IF IsLeap(y) THEN 29 ELSE 28)
  ELSE IF m \in {3, 5, 8, 10} THEN 30 ELSE 31

\* <<y, m, d>> with m possibly >= 12 and d possibly past the end of the month
\* (d >= 1): the date the platform normalises it to
RECURSIVE NormalizeDate(_, _, _)
NormalizeDate(y, m, d) ==
  IF m > 11 THEN NormalizeDate(y + 1, m - 12, d)
  ELSE IF d > DaysInMonth(y, m) THEN NormalizeDate(y, m + 1, d - DaysInMonth(y, m))
  ELSE <<y, m, d>>

\* Date.prototype.setMonth(month): day of month kept, then normalised
SetMonth(date, month) == NormalizeDate(date[1], month, date[3])
\* Date.prototype.setDate(day)
SetDate(date, day) == NormalizeDate(date[1], date[2], day)
\* Date.prototype.setFullYear(year)
SetFullYear(date, year) == NormalizeDate(year, date[2], date[3])

\* a < b, a <= b on dates
DateLess(a, b) ==
  \/ a[1] < b[1]
  \/ a[1] = b[1] /\ a[2] < b[2]
  \/ a[1] = b[1] /\ a[2] = b[2] /\ a[3] < b[3]
DateLeq(a, b) == a = b \/ DateLess(a, b)

RECURSIVE DaysBeforeYear(_)
DaysBeforeYear(y) ==
  IF y <= 2023 THEN 0
  ELSE DaysBeforeYear(y - 1) + (IF IsLeap(y - 1) THEN 366 ELSE 365)
RECURSIVE DaysBeforeMonth(_, _)
DaysBeforeMonth(y, m) ==
  IF m = 0 THEN 0 ELSE DaysBeforeMonth(y, m - 1) + DaysInMonth(y, m - 1)

\* new Date(date).getTime(), counted in days from 1 January 2023 (day 1)
GetTime(date) == DaysBeforeYear(date[1]) + DaysBeforeMonth(date[1], date[2]) + date[3]

\* an empty date field
NoDate == <<>>
\* a numeric field that is null or undefined
NullNum == -1


(***************************************************************************)
(* Strings and documents.                                                  *)
(***************************************************************************)
Digits == <<"0", "1", "2", "3", "4", "5", "6", "7", "8", "9">>
\* Number.prototype.toString() of 0..9
NumberToString(n) == Digits[n + 1]
\* the number a decimal string of one digit stands for
ParseInt(str) == (CHOOSE i \in 1 .. Len(Digits) : Digits[i] = str) - 1

\* the document id `${userId}_${documentNumber}` of addTransaction and
\* deleteTransaction, as the sequence of its parts
DocumentId(userId, documentNumber) == <<userId, "_", documentNumber>>
\* the document id updateTransaction addresses: doc(transaction.documentNumber)
UpdateDocumentId(userId, documentNumber) == <<documentNumber>>

\* Firestore's doc(id).set(data), doc(id).delete() on a collection held as a
\* function from document ids to documents
DocSet(coll, id, data) ==
  [k \in DOMAIN coll \cup {id} |-> IF k = id THEN data ELSE coll[k]]
\* a variant that removes every user's document of that number
DocDeleteOfNumber(coll, id) == [k \in {j \in DOMAIN coll : j[3] # id[3]} |-> coll[k]]
DocDelete(coll, id) == [k \in DOMAIN coll \ {id} |-> coll[k]]
\* ref.where('userId', '==', userId): the ids of the matching documents
WhereUserId(coll, userId) == {k \in DOMAIN coll : coll[k].userId = userId}

(***************************************************************************)
(* TransactionEntry objects handed to the service and the dialogs' forms.  *)
(***************************************************************************)
\* new TransactionEntry('', '', 0, 0, '', '', '', 0) with no date in millis
EmptyEntry ==
  [documentNumber |-> "", date |-> NoDate, gross |-> 0, net |-> 0,
   description |-> "", category |-> "", incomeExpenses |-> "",
   dateInMillis |-> 0, documentName |-> "", repeatInterval |-> "",
   dayOfMonth |-> 0, quarter |-> ""]

EntryA ==
  [EmptyEntry EXCEPT !.date = <<2024, 0, 31>>, !.gross = 12, !.net = 12,
                     !.description = "salary", !.category = "Income",
                     !.incomeExpenses = "income"]
EntryB ==
  [EmptyEntry EXCEPT !.date = <<2023, 11, 15>>, !.gross = 6, !.net = 5,
                     !.description = "bread", !.incomeExpenses = "expense",
                     !.documentName = "img"]

RequiredFields == {"date", "gross", "net", "description", "incomeExpenses"}
\* entry e with the required field f missing
Lacking(e, f) ==
  CASE f = "date" -> [e EXCEPT !.date = NoDate]
    [] f = "gross" -> [e EXCEPT !.gross = NullNum]
    [] f = "net" -> [e EXCEPT !.net = NullNum]
    [] f = "description" -> [e EXCEPT !.description = ""]
    [] f = "incomeExpenses" -> [e EXCEPT !.incomeExpenses = ""]

\* what a caller may hand to addTransaction and updateTransaction
ServiceInputs == {EntryA, EntryB} \cup {Lacking(EntryA, f) : f \in RequiredFields}
\* the inputs of the interleaved specification
ConcurrentInputs == {EntryA, Lacking(EntryA, "description")}

\* the service's check of the required fields: TRUE when one is missing
HasUndefinedFields(t) ==
  \/ t.date = NoDate
  \/ t.gross = NullNum
  \/ t.net = NullNum
  \/ t.description = ""
  \/ t.incomeExpenses = ""

(***************************************************************************)
(* Errors and the catchError stages they pass through.                     *)
(***************************************************************************)
ErrNoUser == "No user logged in"
ErrUndefinedFields == "Transaction has undefined or null fields"
ErrSave == "Failed to save transaction in Firestore"
ErrCounter == "Failed to retrieve or update transaction counter"
ErrDelete == "Failed to delete transaction"
ErrUpdate == "Failed to update transaction in Firestore"
\* throwError(() => new Error(error)): the message is String(error)
WrapError(e) == "Error: " \o e
\* addTransaction: an error raised after the user is known passes the
\* catchError of the counter pipe, then the outer one
AddError(e) == WrapError(ErrCounter)
\* deleteTransaction: likewise through the catchError of the delete pipe
DeleteError(e) == WrapError(ErrDelete)
\* updateTransaction: only the outer catchError follows the field check
UpdateError(e) == WrapError(e)

\* outcomes that are not error messages
Emitted == "next"
NeverEmits == "never"
Invalid == "invalid"
NotDue == "not due"

VARIABLES
  counters,       \* collection 'transactionCounters': userId -> counter, NullNum = no document
  transactions,   \* collection 'transactions': document id -> document
  pc,             \* per session: the remote call the running operation waits for
  op,             \* per session: "add", "delete", "update" or ""
  caller,         \* per session: "service", "TransactionDialog", "StandingDialog" or ""
  txn,            \* per session: the TransactionEntry object of the operation
  uid,            \* per session: user.uid of the running operation
  currentCounter, \* per session: the counter value addTransaction read
  outcome,        \* per session: what the operation's observable delivered
  dialog,         \* per session: "none", "open" or "closed" (dialogRef)
  currentDate,    \* per session: StandingDialogComponent.addTransaction's currentDate
  nextDueDate,    \* per session: its nextDueDate
  emptied,        \* history, per user: "removed" once a delete removed the user's
                  \* only stored transaction, "reset" once the counter was reset
                  \* after that, "" from the next stored transaction on
  skipped,        \* history, per user: the document number that the last
                  \* failed addTransaction call left behind (0: none), with
                  \* the flag whether the counter has since been reset with
                  \* none of the user's transactions stored
  entry,          \* a TransactionEntry under recurrence: date, repeatInterval, dayOfMonth, quarter
  anchor,         \* the entry as constructed
  applied,        \* how often updateNextDueDate ran on it
  dueDate         \* result of calculateNextDueDate on the anchor, NoDate before

storeVars == <<counters, transactions, emptied, skipped>>
sessionVars == <<pc, op, caller, txn, uid, currentCounter, outcome, dialog,
                 currentDate, nextDueDate>>
dueVars == <<entry, anchor, applied, dueDate>>

VARIABLES
  pdfTransactions, \* the transactions handed to ReportsComponent.createPdf
  pdfCreated,      \* TRUE once createPdf has run on them
  categoriesData,  \* createPdf's categoriesData: rows <<category, amount text>>
  guvData          \* createPdf's guvData: rows <<label, amount text>>

pdfVars == <<pdfTransactions, pdfCreated, categoriesData, guvData>>

VARIABLES
  selectedYear,    \* DashboardComponent.selectedYear
  totalIncome,     \* DashboardComponent.totalIncome (text)
  totalExpenses,   \* DashboardComponent.totalExpenses (text)
  saldo,           \* DashboardComponent.saldo (text)
  pending,         \* the dashboard's requests in flight: <<kind, year>>
  yearChanges,     \* how often the year dialog returned a year
  chartYear,       \* the year of the chart data last drawn, 0 before
  incomeData,      \* generateChart's incomeData, one value per month
  expensesData,    \* its expensesData
  saldoPositive,   \* its saldoPositive
  saldoNegative    \* its saldoNegative

dashVars == <<selectedYear, totalIncome, totalExpenses, saldo, pending, yearChanges,
              chartYear, incomeData, expensesData, saldoPositive, saldoNegative>>

\* the state of the components other than the transaction service, its
\* dialogs and the recurrence calculator
VARIABLES
  reportYear,        \* ReportsComponent.selectedYear, 0 for null
  reportMonth,       \* ReportsComponent.selectedMonth, 0 for null
  reports,           \* ReportsComponent.reports: the names, in list order
  pendingReports,    \* generateReport's requests for transactions, in flight
  savingReports,     \* names handed to saveReport and not yet written
  reportsCollection, \* collection 'reports': the names of its documents
  generated,         \* how often generateReport asked for transactions
  reportWriters      \* for each document of 'reports', the user whose session
                     \* wrote it (kept for the properties; no field holds it)

reportVars == <<reportYear, reportMonth, reports, pendingReports, savingReports,
                reportsCollection, generated, reportWriters>>

VARIABLES
  budgets,     \* collection 'budgets': its documents, in the order written
  categories,  \* collection 'categories': its documents, in the order written
  seeding,     \* per session: where its run of initializeCategories stands
  seedWrites,  \* per user: how often the default categories were written
  returned,    \* per session: what each query has emitted last
  received     \* per session: the queries that have emitted

moreVars == <<budgets, categories, seeding, seedWrites, returned, received>>

VARIABLES
  storedLanguage,   \* localStorage item 'language'
  storedTheme,      \* localStorage item 'theme'
  appliedLanguage,  \* the language handed to translate.use last
  appliedTheme,     \* the theme applyTheme was called with last
  isLoggedIn,       \* AppComponent.isLoggedIn
  settings,         \* the settings document of the server
  saved,            \* the arguments of the last savePreferences
  lastPreference    \* the operation of AppComponent that ran last

prefVars == <<storedLanguage, storedTheme, appliedLanguage, appliedTheme, isLoggedIn,
              settings, saved, lastPreference>>

VARIABLES
  removal,          \* history, per session: the category deleteCategories was
                    \* confirmed for last
  savingBudgets,    \* BudgetComponent.savingBudgets
  spendingBudgets,  \* BudgetComponent.spendingBudgets
  pageIndex,        \* paginator.pageIndex
  pageSize          \* paginator.pageSize

pageVars == <<savingBudgets, spendingBudgets, pageIndex, pageSize>>
lateRest == <<removal, pageVars>>

lateVars == <<prefVars, lateRest>>

restVars == <<pdfVars, dashVars, reportVars, moreVars, lateVars>>
\* what the transaction service and the dialogs never touch
calcVars == <<dueVars, restVars>>
vars == <<storeVars, sessionVars, dueVars, restVars>>


(***************************************************************************)
(* The initial state: every session idle.                                  *)
(***************************************************************************)
\* Date.prototype.toISOString(): the month of an ISO date counts from 1
ToISOString(date) == <<date[1], date[2] + 1, date[3]>>

\* a field that `!x` and `x || y` take as absent
Falsy(n) == n = 0 \/ n = NullNum

\* data?.counter || 0 of a counter document that may not exist
CounterOf(userId) == IF Falsy(counters[userId]) THEN 0 ELSE counters[userId]

\* the object addTransaction writes to the transactions collection
\* a variant that stores the whole entry, its recurrence fields included
TransactionDataOfEntry(t, userId) ==
  [documentNumber |-> t.documentNumber, date |-> ToISOString(t.date),
   gross |-> t.gross, net |-> t.net, description |-> t.description,
   category |-> t.category, incomeExpenses |-> t.incomeExpenses,
   dateInMillis |-> t.dateInMillis, documentName |-> t.documentName,
   userId |-> userId, repeatInterval |-> t.repeatInterval,
   dayOfMonth |-> t.dayOfMonth, quarter |-> t.quarter]
TransactionData(t, userId) ==
  [documentNumber |-> t.documentNumber, date |-> ToISOString(t.date),
   gross |-> t.gross, net |-> t.net, description |-> t.description,
   category |-> t.category, incomeExpenses |-> t.incomeExpenses,
   dateInMillis |-> t.dateInMillis, documentName |-> t.documentName,
   userId |-> userId]

\* the fields updateTransaction sends to doc(...).update
UpdateData(t) ==
  [date |-> ToISOString(t.date), gross |-> t.gross, net |-> t.net,
   description |-> t.description, category |-> t.category,
   incomeExpenses |-> t.incomeExpenses,
   dateInMillis |-> IF Falsy(t.dateInMillis) THEN GetTime(t.date) ELSE t.dateInMillis,
   documentName |-> t.documentName]

\* Firestore's update: the fields given replace the document's, the others stay
DocUpdate(doc, data) ==
  [f \in DOMAIN doc |-> IF f \in DOMAIN data THEN data[f] ELSE doc[f]]

\* transaction.documentNumber and dateInMillis as set once the counter is written
Numbered(t, documentNumber) ==
  [t EXCEPT !.documentNumber = NumberToString(documentNumber),
            !.dateInMillis = IF Falsy(@)
                               THEN (IF t.date = NoDate THEN NullNum ELSE GetTime(t.date))
                               ELSE @]

\* history entry of a document number that a failed addTransaction left behind
Left(documentNumber) == [number |-> documentNumber, reset |-> FALSE]

Idle(s) == pc[s] = "idle"
InFlight(s) == pc[s] \notin {"idle", "done"}

\* u1 has not used the application yet; u2 has stored one transaction
InitStore ==
  /\ counters = [u \in Users |-> IF u = "u2" THEN 1 ELSE NullNum]
  /\ transactions = DocSet([k \in {} |-> EmptyEntry], DocumentId("u2", "1"),
                           TransactionData(Numbered(EntryB, 1), "u2"))
  /\ emptied = [u \in Users |-> ""]
  /\ skipped = [u \in Users |-> Left(0)]

\* no report has been generated
InitPdfIdle ==
  /\ pdfTransactions = <<>>
  /\ pdfCreated = FALSE
  /\ categoriesData = <<>>
  /\ guvData = <<>>

\* DashboardComponent as constructed, before ngOnInit
InitDashIdle ==
  /\ selectedYear = 2024
  /\ totalIncome = <<"0", ",", "0", "0">>
  /\ totalExpenses = <<"0", ",", "0", "0">>
  /\ saldo = <<"0", ",", "0", "0">>
  /\ pending = {}
  /\ yearChanges = 0
  /\ chartYear = 0
  /\ incomeData = <<>>
  /\ expensesData = <<>>
  /\ saldoPositive = <<>>
  /\ saldoNegative = <<>>

\* ReportsComponent as constructed, the 'reports' collection empty
InitReportsIdle ==
  /\ reportYear = 0
  /\ reportMonth = 0
  /\ reports = <<>>
  /\ pendingReports = <<>>
  /\ savingReports = <<>>
  /\ reportsCollection = <<>>
  /\ generated = 0
  /\ reportWriters = <<>>

\* the browser sessions of the budget, category and list views and their users
Clients == {"c1", "c2", "c3"}
ClientUser == [c \in Clients |-> IF c = "c3" THEN "u2" ELSE "u1"]
NoCategory == [id |-> 0, name |-> "", userId |-> NoUser]

\* empty 'budgets' and 'categories' collections, nothing queried yet
InitMoreIdle ==
  /\ budgets = <<>>
  /\ categories = <<>>
  /\ seeding = [c \in Clients |-> "idle"]
  /\ seedWrites = [u \in Users |-> 0]
  /\ returned = [c \in Clients |->
                   [transactions |-> <<>>, budgets |-> <<>>, categories |-> <<>>,
                    reports |-> <<>>]]
  /\ received = [c \in Clients |-> {}]

\* a stored item that is absent (getItem returns null), and no arguments yet
NoItem == [cipher |-> FALSE, text |-> ""]
NoPreferences == [language |-> "", theme |-> ""]

\* AppComponent as constructed, local storage and the server's settings empty
InitPrefIdle ==
  /\ storedLanguage = NoItem
  /\ storedTheme = NoItem
  /\ appliedLanguage = NoItem
  /\ appliedTheme = NoItem
  /\ isLoggedIn = FALSE
  /\ settings = NoPreferences
  /\ saved = NoPreferences
  /\ lastPreference = "none"

\* no category deleted yet; BudgetComponent as constructed, the paginator on
\* its first page
InitPagesIdle ==
  /\ removal = [c \in Clients |-> NoCategory]
  /\ savingBudgets = <<>>
  /\ spendingBudgets = <<>>
  /\ pageIndex = 0
  /\ pageSize = 1

InitLateIdle == InitPrefIdle /\ InitPagesIdle

\* the other components as constructed
InitRest ==
  InitPdfIdle /\ InitDashIdle /\ InitReportsIdle /\ InitMoreIdle /\ InitLateIdle

InitSessions ==
  /\ pc = [s \in Sessions |-> "idle"]
  /\ op = [s \in Sessions |-> ""]
  /\ caller = [s \in Sessions |-> ""]
  /\ txn = [s \in Sessions |-> EmptyEntry]
  /\ uid = [s \in Sessions |-> NoUser]
  /\ currentCounter = [s \in Sessions |-> 0]
  /\ outcome = [s \in Sessions |-> ""]
  /\ dialog = [s \in Sessions |-> "none"]
  /\ currentDate = [s \in Sessions |-> NoDate]
  /\ nextDueDate = [s \in Sessions |-> NoDate]

(***************************************************************************)
(* TransactionServiceComponent.  An operation is a chain of remote calls;  *)
(* each action below is one remote call with the code that runs when it    *)
(* answers.  A remote call may be rejected.                                *)
(***************************************************************************)
\* the operation's observable delivers `out` to its subscriber; the dialogs'
\* next-handlers close the dialog
Complete(s, out) ==
  /\ pc' = [pc EXCEPT ![s] = "done"]
  /\ outcome' = [outcome EXCEPT ![s] = out]
  /\ dialog' = [dialog EXCEPT ![s] = IF out = Emitted /\ @ = "open" THEN "closed" ELSE @]

\* the start of an operation: from(this.authService.getCurrentUser()) and the
\* branch on the user
Begin(s, o, c, t, user, firstPc, firstOutcome) ==
  /\ Idle(s)
  /\ op' = [op EXCEPT ![s] = o]
  /\ caller' = [caller EXCEPT ![s] = c]
  /\ txn' = [txn EXCEPT ![s] = t]
  /\ uid' = [uid EXCEPT ![s] = user]
  /\ IF user = NoUser
       THEN /\ pc' = [pc EXCEPT ![s] = "done"]
            /\ outcome' = [outcome EXCEPT ![s] = WrapError(ErrNoUser)]
       ELSE /\ pc' = [pc EXCEPT ![s] = firstPc]
            /\ outcome' = [outcome EXCEPT ![s] = firstOutcome]

\* addTransaction(transaction) up to counterDocRef.get()
AddTransactionCall(s, c, t, user) ==
  /\ user # NoUser => CounterOf(user) < MaxCounter
  /\ Begin(s, "add", c, t, user, "readCounter", "")
  /\ UNCHANGED <<storeVars, currentCounter>>

\* counterDocRef.get() answers: currentCounter
AddReadCounter(s) ==
  /\ pc[s] = "readCounter"
  /\ \/ /\ CounterOf(uid[s]) < MaxCounter
        /\ currentCounter' = [currentCounter EXCEPT ![s] = CounterOf(uid[s])]
        /\ pc' = [pc EXCEPT ![s] = "writeCounter"]
        /\ UNCHANGED <<outcome, dialog>>
     \/ /\ Complete(s, AddError(ErrCounter))
        /\ UNCHANGED currentCounter
  /\ UNCHANGED <<storeVars, op, caller, txn, uid, currentDate, nextDueDate, calcVars>>

\* a variant that takes the counter's value at the time of the write
DocumentNumberFromCounterNow(s) == CounterOf(uid[s]) + 1
\* const documentNumber = currentCounter + 1
DocumentNumber(s) == currentCounter[s] + 1

\* counterDocRef.set({counter: documentNumber}) answers; the transaction is
\* numbered and its required fields are checked
AddWriteCounter(s) ==
  /\ pc[s] = "writeCounter"
  /\ \/ LET documentNumber == DocumentNumber(s)
            t == Numbered(txn[s], documentNumber)
        IN /\ counters' = [counters EXCEPT ![uid[s]] = documentNumber]
           /\ txn' = [txn EXCEPT ![s] = t]
           /\ IF HasUndefinedFields(t)
                THEN /\ Complete(s, AddError(ErrUndefinedFields))
                     /\ skipped' = [skipped EXCEPT ![uid[s]] = Left(documentNumber)]
                ELSE /\ pc' = [pc EXCEPT ![s] = "writeDoc"]
                     /\ UNCHANGED <<outcome, dialog, skipped>>
     \/ /\ Complete(s, AddError(ErrCounter))
        /\ UNCHANGED <<counters, txn, skipped>>
  /\ UNCHANGED <<transactions, emptied, op, caller, uid, currentCounter,
                 currentDate, nextDueDate, calcVars>>

\* doc(documentId).set(transactionData) answers
AddWriteDoc(s) ==
  /\ pc[s] = "writeDoc"
  /\ \/ /\ transactions' = DocSet(transactions,
                                  DocumentId(uid[s], txn[s].documentNumber),
                                  TransactionData(txn[s], uid[s]))
        /\ emptied' = [emptied EXCEPT ![uid[s]] = ""]
        /\ Complete(s, Emitted)
        /\ UNCHANGED skipped
     \/ /\ Complete(s, AddError(ErrSave))
        /\ skipped' = [skipped EXCEPT ![uid[s]] =
                            Left(ParseInt(txn[s].documentNumber))]
        /\ UNCHANGED <<transactions, emptied>>
  /\ UNCHANGED <<counters, op, caller, txn, uid, currentCounter,
                 currentDate, nextDueDate, calcVars>>


\* deleteTransaction(documentNumber) up to doc(documentId).delete(); the
\* session's txn carries the documentNumber argument
DeleteTransactionCall(s, documentNumber, user) ==
  /\ Begin(s, "delete", "service",
           [EmptyEntry EXCEPT !.documentNumber = documentNumber], user, "deleteDoc", "")
  /\ UNCHANGED <<storeVars, currentCounter, dialog, currentDate, nextDueDate, calcVars>>

\* doc(documentId).delete() answers; the query for the user's transactions is sent
DeleteDoc(s) ==
  /\ pc[s] = "deleteDoc"
  /\ \/ LET documentId == DocumentId(uid[s], txn[s].documentNumber)
        IN /\ transactions' = DocDelete(transactions, documentId)
           /\ emptied' = [emptied EXCEPT ![uid[s]] =
                            IF WhereUserId(transactions, uid[s]) = {documentId}
                              THEN "removed" ELSE @]
           /\ pc' = [pc EXCEPT ![s] = "query"]
           /\ UNCHANGED <<outcome, dialog>>
     \/ /\ Complete(s, DeleteError(ErrDelete))
        /\ UNCHANGED <<transactions, emptied>>
  /\ UNCHANGED <<counters, skipped, op, caller, txn, uid, currentCounter,
                 currentDate, nextDueDate, calcVars>>

\* a variant that resets the counter after every deletion
SnapshotEmptyAlways(s) == TRUE
\* querySnapshot.empty of the query for the user's transactions
SnapshotEmpty(s) == WhereUserId(transactions, uid[s]) = {}

\* transactionsRef.get() answers: querySnapshot.empty decides between the
\* counter reset and an observable that never emits
DeleteQuery(s) ==
  /\ pc[s] = "query"
  /\ \/ IF SnapshotEmpty(s)
          THEN /\ pc' = [pc EXCEPT ![s] = "resetCounter"]
               /\ UNCHANGED <<outcome, dialog>>
          ELSE Complete(s, NeverEmits)
     \/ Complete(s, DeleteError(ErrDelete))
  /\ UNCHANGED <<storeVars, op, caller, txn, uid, currentCounter,
                 currentDate, nextDueDate, calcVars>>

\* counterDocRef.set({counter: 0}) answers
DeleteReset(s) ==
  /\ pc[s] = "resetCounter"
  /\ \/ /\ counters' = [counters EXCEPT ![uid[s]] = 0]
        /\ emptied' = [emptied EXCEPT ![uid[s]] = IF @ = "removed" THEN "reset" ELSE @]
        /\ skipped' = [skipped EXCEPT ![uid[s]] =
                            IF WhereUserId(transactions, uid[s]) = {}
                              THEN [@ EXCEPT !.reset = skipped[uid[s]].number # 0]
                              ELSE @]
        /\ Complete(s, Emitted)
     \/ /\ Complete(s, DeleteError(ErrDelete))
        /\ UNCHANGED <<counters, emptied, skipped>>
  /\ UNCHANGED <<transactions, op, caller, txn, uid, currentCounter,
                 currentDate, nextDueDate, calcVars>>

\* updateTransaction(transaction) up to doc(...).update(transactionData)
UpdateTransactionCall(s, c, t, user) ==
  /\ IF HasUndefinedFields(t)
       THEN Begin(s, "update", c, t, user, "done", UpdateError(ErrUndefinedFields))
       ELSE Begin(s, "update", c, t, user, "updateDoc", "")
  /\ UNCHANGED <<storeVars, currentCounter>>

\* doc(transaction.documentNumber).update(transactionData) answers: the update
\* of a document that does not exist is rejected, like any other failed write
UpdateDoc(s) ==
  /\ pc[s] = "updateDoc"
  /\ LET documentId == UpdateDocumentId(uid[s], txn[s].documentNumber)
     IN IF documentId \in DOMAIN transactions
          THEN /\ transactions' = [transactions EXCEPT ![documentId] =
                                     DocUpdate(@, UpdateData(txn[s]))]
               /\ Complete(s, Emitted)
          ELSE /\ Complete(s, UpdateError(ErrUpdate))
               /\ UNCHANGED transactions
  /\ UNCHANGED <<counters, emptied, skipped, op, caller, txn, uid, currentCounter,
                 currentDate, nextDueDate, calcVars>>

\* the subscriber has been served (or gave up waiting); the session is free again
Release(s) ==
  /\ pc[s] = "done"
  /\ pc' = [pc EXCEPT ![s] = "idle"]
  /\ op' = [op EXCEPT ![s] = ""]
  /\ caller' = [caller EXCEPT ![s] = ""]
  /\ txn' = [txn EXCEPT ![s] = EmptyEntry]
  /\ uid' = [uid EXCEPT ![s] = NoUser]
  /\ currentCounter' = [currentCounter EXCEPT ![s] = 0]
  /\ outcome' = [outcome EXCEPT ![s] = ""]
  /\ dialog' = [dialog EXCEPT ![s] = "none"]
  /\ currentDate' = [currentDate EXCEPT ![s] = NoDate]
  /\ nextDueDate' = [nextDueDate EXCEPT ![s] = NoDate]
  /\ UNCHANGED <<storeVars, calcVars>>


(***************************************************************************)
(* Recurrence calculator.                                                  *)
(***************************************************************************)
\* the last day of the month of `date` when `day` is past it, else `day`
ClampDay(date, day) ==
  <<date[1], date[2],
    IF day > DaysInMonth(date[1], date[2]) THEN DaysInMonth(date[1], date[2]) ELSE day>>
\* a variant that clamps to the end of the following month
CalculateNextDueDateClamped(startDate, repeatInterval) ==
  LET first == <<startDate[1], startDate[2], 1>>
      advanced == IF repeatInterval = "monthly" THEN SetMonth(first, first[2] + 1)
                  ELSE IF repeatInterval = "quarterly" THEN SetMonth(first, first[2] + 3)
                  ELSE first
  IN ClampDay(advanced, startDate[3])
\* StandingDialogComponent.calculateNextDueDate(startDate)
CalculateNextDueDate(startDate, repeatInterval) ==
  LET advanced == IF repeatInterval = "monthly" THEN SetMonth(startDate, startDate[2] + 1)
                  ELSE IF repeatInterval = "quarterly" THEN SetMonth(startDate, startDate[2] + 3)
                  ELSE startDate
  IN SetDate(advanced, startDate[3])

quarters == <<"Q1", "Q2", "Q3", "Q4">>
\* Array.prototype.indexOf, counted from 0; -1 when absent
IndexOf(seq, x) ==
  IF \E i \in 1 .. Len(seq) : seq[i] = x
    THEN (CHOOSE i \in 1 .. Len(seq) : seq[i] = x) - 1
    ELSE 0 - 1
\* a variant that stays at the last label
NextQuarterNoWrap(quarter) ==
  quarters[IF IndexOf(quarters, quarter) + 2 > 4 THEN 4 ELSE IndexOf(quarters, quarter) + 2]
\* the quarter label after `quarter`
NextQuarter(quarter) == quarters[((IndexOf(quarters, quarter) + 1) % 4) + 1]

\* a variant that clamps to the end of the month
PinDayClamped(nextDate, dayOfMonth) == ClampDay(nextDate, dayOfMonth)
\* nextDate.setDate(this.dayOfMonth)
PinDay(nextDate, dayOfMonth) == SetDate(nextDate, dayOfMonth)

\* TransactionEntry.updateNextDueDate() on e = [date, repeatInterval, dayOfMonth,
\* quarter], date standing for new Date(this.dateInMillis)
UpdateNextDueDate(e) ==
  LET currentDate_ == e.date
      known == \/ e.repeatInterval \in {"monthly", "yearly"}
               \/ e.repeatInterval = "quarterly" /\ e.quarter # ""
      nextDate == IF e.repeatInterval = "monthly" THEN SetMonth(currentDate_, currentDate_[2] + 1)
                  ELSE IF e.repeatInterval = "yearly" THEN SetFullYear(currentDate_, currentDate_[1] + 1)
                  ELSE SetMonth(currentDate_, currentDate_[2] + 3)
      pinned == IF e.dayOfMonth # 0 /\ e.repeatInterval = "monthly"
                  THEN PinDay(nextDate, e.dayOfMonth) ELSE nextDate
  IN IF ~known THEN e
     ELSE [e EXCEPT !.date = pinned,
                    !.quarter = IF e.repeatInterval = "quarterly" THEN NextQuarter(@) ELSE @]

(***************************************************************************)
(* The dialogs.                                                            *)
(***************************************************************************)
\* TransactionDialogComponent.calculateNetAmount
TransactionDialogCalculateNetAmount(t) ==
  [t EXCEPT !.net = IF t.incomeExpenses = "expense" THEN (t.gross * 10) \div 12 ELSE t.gross]
\* StandingDialogComponent.calculateNetAmount
StandingDialogCalculateNetAmount(t) ==
  [t EXCEPT !.net = IF t.incomeExpenses = "expense" THEN (t.gross * 10) \div 12 ELSE t.gross]

\* the dialogs' check: TRUE when a required field of the form is missing
FormIncomplete(t) ==
  t.date = NoDate \/ Falsy(t.gross) \/ t.description = "" \/ t.incomeExpenses = ""

\* the handler returns without calling the service
DialogReturns(s, c, t, out) ==
  /\ Idle(s)
  /\ pc' = [pc EXCEPT ![s] = "done"]
  /\ caller' = [caller EXCEPT ![s] = c]
  /\ txn' = [txn EXCEPT ![s] = t]
  /\ outcome' = [outcome EXCEPT ![s] = out]
  /\ UNCHANGED <<storeVars, op, uid, currentCounter>>

\* TransactionDialogComponent.addTransaction() on form t
TransactionDialogAddTransaction(s, t, user) ==
  /\ dialog' = [dialog EXCEPT ![s] = "open"]
  /\ IF FormIncomplete(t)
       THEN DialogReturns(s, "TransactionDialog", t, Invalid)
       ELSE LET t1 == TransactionDialogCalculateNetAmount(t)
            IN IF t1.documentNumber # ""
                 THEN UpdateTransactionCall(s, "TransactionDialog", t1, user)
                 ELSE AddTransactionCall(s, "TransactionDialog", t1, user)
  /\ UNCHANGED <<currentDate, nextDueDate, calcVars>>

\* StandingDialogComponent.saveTransaction()
SaveTransaction(s, t, user) ==
  IF t.documentNumber # ""
    THEN UpdateTransactionCall(s, "StandingDialog", t, user)
    ELSE AddTransactionCall(s, "StandingDialog", t, user)

\* a variant that waits until the due date has passed
IsDueStrict(now, due) == DateLess(due, now)
\* currentDate >= nextDueDate
IsDue(now, due) == DateLeq(due, now)

\* StandingDialogComponent.addTransaction() on form t at date `now`
StandingDialogAddTransaction(s, t, now, user) ==
  /\ dialog' = [dialog EXCEPT ![s] = "open"]
  /\ IF FormIncomplete(t)
       THEN /\ DialogReturns(s, "StandingDialog", t, Invalid)
            /\ UNCHANGED <<currentDate, nextDueDate>>
       ELSE LET t1 == StandingDialogCalculateNetAmount(t)
                due == CalculateNextDueDate(t1.date, t1.repeatInterval)
            IN IF t1.repeatInterval = "quarterly" /\ t1.quarter = ""
                 THEN /\ DialogReturns(s, "StandingDialog", t1, Invalid)
                      /\ UNCHANGED <<currentDate, nextDueDate>>
                 ELSE /\ currentDate' = [currentDate EXCEPT ![s] = now]
                      /\ nextDueDate' = [nextDueDate EXCEPT ![s] = due]
                      /\ IF IsDue(now, due)
                           THEN SaveTransaction(s, t1, user)
                           ELSE DialogReturns(s, "StandingDialog", t1, NotDue)
  /\ UNCHANGED calcVars


(***************************************************************************)
(* Inputs.                                                                 *)
(***************************************************************************)
\* getCurrentUser() in session s: the signed-in user, or null
CurrentUsers(s) == {SessionUser[s], NoUser}

DocumentNumbers == {NumberToString(n) : n \in 1 .. MaxCounter}

\* forms of a new transaction: net not yet calculated, a required field
\* possibly left empty
NewForms ==
  {[e EXCEPT !.net = 0] : e \in {EntryA, EntryB}}
    \cup {[Lacking(EntryA, f) EXCEPT !.net = 0] : f \in {"date", "description", "incomeExpenses"}}
    \cup {[EntryB EXCEPT !.gross = 0, !.net = 0]}

\* Date.parse of a stored ISO date
FromISOString(iso) == <<iso[1], iso[2] - 1, iso[3]>>

\* forms that edit a transaction the user sees in the list: documentNumber and
\* dateInMillis come from the stored document, the other fields are as typed
EditForms(user) ==
  {[f EXCEPT !.documentNumber = transactions[k].documentNumber,
             !.dateInMillis = transactions[k].dateInMillis] :
     f \in NewForms, k \in WhereUserId(transactions, user)}

\* forms of the standing-order dialog
StandingForms ==
  {[f EXCEPT !.repeatInterval = r, !.quarter = q] :
     f \in NewForms, r \in {"monthly", "quarterly", "yearly"}, q \in {"", "Q2"}}

\* the dates on which the standing-order dialog is used
Nows == {<<2024, 0, 15>>, <<2024, 2, 31>>, <<2024, 5, 1>>}

(***************************************************************************)
(* Next-state relations.                                                   *)
(***************************************************************************)
AddTransaction(s, inputs) ==
  \E t \in inputs, user \in CurrentUsers(s) :
    /\ AddTransactionCall(s, "service", t, user)
    /\ UNCHANGED <<dialog, currentDate, nextDueDate, calcVars>>

DeleteTransaction(s) ==
  \E n \in DocumentNumbers, user \in CurrentUsers(s) : DeleteTransactionCall(s, n, user)

UpdateTransaction(s, inputs) ==
  \E t \in inputs, n \in DocumentNumbers, user \in CurrentUsers(s) :
    /\ UpdateTransactionCall(s, "service", [t EXCEPT !.documentNumber = n], user)
    /\ UNCHANGED <<dialog, currentDate, nextDueDate, calcVars>>

TransactionDialogSubmit(s) ==
  \E user \in CurrentUsers(s) :
    \E t \in NewForms \cup EditForms(SessionUser[s]) :
      TransactionDialogAddTransaction(s, t, user)

StandingDialogSubmit(s) ==
  \E user \in CurrentUsers(s), now \in Nows :
    \E t \in StandingForms : StandingDialogAddTransaction(s, t, now, user)

\* one remote call of a running operation answers
Answer(s) ==
  \/ AddReadCounter(s)
  \/ AddWriteCounter(s)
  \/ AddWriteDoc(s)
  \/ DeleteDoc(s)
  \/ DeleteQuery(s)
  \/ DeleteReset(s)
  \/ UpdateDoc(s)
  \/ Release(s)

InitDueIdle ==
  /\ entry = [date |-> <<2023, 0, 1>>, repeatInterval |-> "", dayOfMonth |-> 0, quarter |-> ""]
  /\ anchor = entry
  /\ applied = 0
  /\ dueDate = NoDate

Init == InitStore /\ InitSessions /\ InitDueIdle /\ InitRest

\* sessions call the service and interleave freely
Next ==
  \E s \in Sessions :
    \/ AddTransaction(s, ConcurrentInputs)
    \/ DeleteTransaction(s)
    \/ UpdateTransaction(s, {EntryB})
    \/ Answer(s)

Spec == Init /\ [][Next]_vars

\* every operation runs to completion before the next one starts
NoneInFlight == \A s \in Sessions : Idle(s)

NextSeq ==
  \E s \in Sessions :
    \/ NoneInFlight /\ AddTransaction(s, ServiceInputs)
    \/ NoneInFlight /\ DeleteTransaction(s)
    \/ NoneInFlight /\ UpdateTransaction(s, ServiceInputs)
    \/ NoneInFlight /\ TransactionDialogSubmit(s)
    \/ NoneInFlight /\ StandingDialogSubmit(s)
    \/ Answer(s)

SpecSeq == Init /\ [][NextSeq]_vars


(***************************************************************************)
(* The recurrence calculator on its own: every anchor date of Years.       *)
(***************************************************************************)
Dates ==
  {date \in Years \X (0 .. 11) \X (1 .. 31) : date[3] <= DaysInMonth(date[1], date[2])}

\* the recurring entries: the fields the dialog offers for each interval, an
\* entry with no interval, and quarterly entries whose label is missing or
\* not one of the four
DueEntries ==
  {[date |-> d, repeatInterval |-> "monthly", dayOfMonth |-> n, quarter |-> ""] :
     d \in Dates, n \in {0, 10, 31}}
  \cup
  {[date |-> d, repeatInterval |-> "quarterly", dayOfMonth |-> 0, quarter |-> q] :
     d \in Dates, q \in {"", "Q1", "Q2", "Q3", "Q4", "Q5"}}
  \cup
  {[date |-> d, repeatInterval |-> r, dayOfMonth |-> 0, quarter |-> ""] :
     d \in Dates, r \in {"yearly", ""}}

InitDue ==
  /\ entry \in DueEntries
  /\ anchor = entry
  /\ applied = 0
  /\ dueDate = NoDate

\* entry.updateNextDueDate()
ApplyUpdateNextDueDate ==
  /\ applied < MaxApply
  /\ entry' = UpdateNextDueDate(entry)
  /\ applied' = applied + 1
  /\ UNCHANGED <<anchor, dueDate, storeVars, sessionVars, restVars>>

\* calculateNextDueDate(new Date(transaction.date)) of a standing order that
\* starts on the anchor date
ApplyCalculateNextDueDate ==
  /\ dueDate = NoDate
  /\ dueDate' = CalculateNextDueDate(anchor.date, anchor.repeatInterval)
  /\ UNCHANGED <<entry, anchor, applied, storeVars, sessionVars, restVars>>

NextDue == ApplyUpdateNextDueDate \/ ApplyCalculateNextDueDate

InitRecurrence == InitStore /\ InitSessions /\ InitDue /\ InitRest

SpecDue == InitRecurrence /\ [][NextDue]_vars


(***************************************************************************)
(* ReportsComponent: the tables of a report (SpecPdf).  Amounts are        *)
(* integers counting cents; a text is the sequence of its characters.      *)
(***************************************************************************)
\* a transaction list has at most this many entries
MaxTransactions == 3

\* the decimal digits of n >= 0
RECURSIVE DecimalDigits(_)
DecimalDigits(n) ==
  IF n < 10 THEN <<Digits[n + 1]>>
  ELSE DecimalDigits(n \div 10) \o <<Digits[(n % 10) + 1]>>

Abs(n) == IF n < 0 THEN 0 - n ELSE n

\* Number.prototype.toFixed(2) of the amount of `cents` cents
ToFixed2(cents) ==
  (IF cents < 0 THEN <<"-">> ELSE <<>>)
    \o DecimalDigits(Abs(cents) \div 100)
    \o <<".", Digits[((Abs(cents) % 100) \div 10) + 1], Digits[(Abs(cents) % 10) + 1]>>

\* the number a sequence of decimal digits stands for
RECURSIVE DigitsValue(_)
DigitsValue(str) ==
  IF str = <<>> THEN 0
  ELSE 10 * DigitsValue(SubSeq(str, 1, Len(str) - 1))
         + ((CHOOSE i \in 1 .. Len(Digits) : Digits[i] = str[Len(str)]) - 1)

\* parseFloat of a text [-]digits[.dd], in cents
ParseFloat(str) ==
  LET negative == str # <<>> /\ str[1] = "-"
      body == IF negative THEN Tail(str) ELSE str
      dots == {i \in 1 .. Len(body) : body[i] = "."}
      dot == IF dots = {} THEN Len(body) + 1 ELSE CHOOSE i \in dots : TRUE
      whole == DigitsValue(SubSeq(body, 1, dot - 1))
      fraction == SubSeq(body, dot + 1, Len(body))
      hundredths == IF Len(fraction) = 0 THEN 0
                    ELSE IF Len(fraction) = 1 THEN 10 * DigitsValue(fraction)
                    ELSE DigitsValue(SubSeq(fraction, 1, 2))
  IN (IF negative THEN 0 - 1 ELSE 1) * (100 * whole + hundredths)

\* parseFloat(transaction.gross) || 0
GrossOrZero(t) == IF Falsy(t.gross) THEN 0 ELSE t.gross

\* this.translate.instant('OTHER')
Other == "Other"

\* a variant that keeps the empty category as it is
CategoryAsStored(t) == t.category
\* transaction.category || this.translate.instant('OTHER')
CategoryOrOther(t) == IF t.category = "" THEN Other ELSE t.category

\* the accumulator object of calculateCategories, as the sequence of its
\* entries <<category, amount>> in the order the keys were added
HasKey(acc, key) == \E i \in DOMAIN acc : acc[i][1] = key
ValueAt(acc, key) == acc[CHOOSE i \in DOMAIN acc : acc[i][1] = key][2]
Assign(acc, key, value) ==
  IF HasKey(acc, key)
    THEN [i \in DOMAIN acc |-> IF acc[i][1] = key THEN <<key, value>> ELSE acc[i]]
    ELSE Append(acc, <<key, value>>)

\* the reducer of calculateCategories
CategoryReducer(acc, transaction) ==
  LET category == CategoryOrOther(transaction)
      amount == GrossOrZero(transaction)
  IN IF HasKey(acc, category) /\ ValueAt(acc, category) # 0
       THEN Assign(acc, category, ValueAt(acc, category) + amount)
       ELSE Assign(acc, category, amount)

RECURSIVE CategoryTotals(_)
CategoryTotals(list) ==
  IF list = <<>> THEN <<>>
  ELSE CategoryReducer(CategoryTotals(SubSeq(list, 1, Len(list) - 1)), list[Len(list)])

\* ReportsComponent.calculateCategories(transactions)
CalculateCategories(list) ==
  LET categoryTotals == CategoryTotals(list)
  IN [i \in DOMAIN categoryTotals |->
        <<categoryTotals[i][1], <<"€", " ">> \o ToFixed2(categoryTotals[i][2])>>]

\* a variant that puts the currency symbol before every amount text as it is
FormatAmountPrefixed(amount) == <<"€", " ">> \o amount
\* ReportsComponent.formatAmount(amount)
FormatAmount(amount) ==
  IF amount # <<>> /\ amount[1] = "-"
    THEN <<"€", " ", "-", " ">> \o Tail(amount)
    ELSE <<"€", " ">> \o amount

\* transactions.filter(t => t.incomeExpenses === type)
FilterType(list, type) == SelectSeq(list, LAMBDA t : t.incomeExpenses = type)

\* list.reduce((sum, t) => sum + (parseFloat(t.gross) || 0), 0)
RECURSIVE SumGross(_)
SumGross(list) ==
  IF list = <<>> THEN 0
  ELSE SumGross(SubSeq(list, 1, Len(list) - 1)) + GrossOrZero(list[Len(list)])

\* a variant that subtracts the expenses twice
ProfitBeforeTaxOfSums(incomeText, expensesText) ==
  ToFixed2(ParseFloat(incomeText) - 2 * ParseFloat(expensesText))
\* (parseFloat(totalIncome) - parseFloat(totalExpenses)).toFixed(2)
ProfitBeforeTax(incomeText, expensesText) ==
  ToFixed2(ParseFloat(incomeText) - ParseFloat(expensesText))

\* ReportsComponent.calculateGuV(transactions)
CalculateGuV(list) ==
  LET incomeText == ToFixed2(SumGross(FilterType(list, "income")))
      expensesText == ToFixed2(SumGross(FilterType(list, "expense")))
      profitBeforeTax == ProfitBeforeTax(incomeText, expensesText)
  IN << <<"REVENUE", FormatAmount(incomeText)>>,
        <<"COSTS", FormatAmount(expensesText)>>,
        <<"BALANCE", FormatAmount(profitBeforeTax)>> >>

\* the transactions a report is made of: the fields the tables read
PdfEntries ==
  [category : {"", "Rent", "Other"}, gross : {0, 1250, 4000, 10000},
   incomeExpenses : {"income", "expense"}]

\* the lists getTransactionsBetweenDates may deliver
PdfTransactionLists ==
  UNION {[1 .. n -> PdfEntries] : n \in 0 .. MaxTransactions}

InitPdf ==
  /\ pdfTransactions \in PdfTransactionLists
  /\ pdfCreated = FALSE
  /\ categoriesData = <<>>
  /\ guvData = <<>>

\* createPdf(transactions, reportType, period): the two tables
CreatePdf ==
  /\ ~pdfCreated
  /\ pdfCreated' = TRUE
  /\ categoriesData' = CalculateCategories(pdfTransactions)
  /\ guvData' = CalculateGuV(pdfTransactions)
  /\ UNCHANGED <<pdfTransactions, storeVars, sessionVars, lateVars, dueVars, moreVars, dashVars,
                 reportVars>>

NextPdf == CreatePdf

InitReport ==
  /\ InitStore /\ InitSessions /\ InitDueIdle /\ InitPdf /\ InitDashIdle
  /\ InitReportsIdle /\ InitMoreIdle /\ InitLateIdle

SpecPdf == InitReport /\ [][NextPdf]_vars

(***************************************************************************)
(* The dashboard and the service's totals and chart data (SpecViews).      *)
(***************************************************************************)
\* the year dialog returns a year at most this many times
MaxYearChanges == 1

\* the digits of an integer part with '.' between groups of three
RECURSIVE Grouped(_)
Grouped(digits) ==
  IF Len(digits) <= 3 THEN digits
  ELSE Grouped(SubSeq(digits, 1, Len(digits) - 3))
         \o <<".">> \o SubSeq(digits, Len(digits) - 2, Len(digits))

\* amount.toLocaleString('de-DE', {minimumFractionDigits: 2, maximumFractionDigits: 2})
ToLocaleString(cents) ==
  (IF cents < 0 THEN <<"-">> ELSE <<>>)
    \o Grouped(DecimalDigits(Abs(cents) \div 100))
    \o <<",", Digits[((Abs(cents) % 100) \div 10) + 1], Digits[(Abs(cents) % 10) + 1]>>

\* TransactionServiceComponent.formatAmount(amount)
ServiceFormatAmount(cents) == ToLocaleString(cents)

\* text.replace(/\./g, '')
RemoveDots(text) == SelectSeq(text, LAMBDA c : c # ".")
\* text.replace(',', '.'): the first comma only
ReplaceComma(text) ==
  LET commas == {i \in 1 .. Len(text) : text[i] = ","}
      first == CHOOSE i \in commas : \A j \in commas : i <= j
  IN IF commas = {} THEN text
     ELSE [i \in 1 .. Len(text) |-> IF i = first THEN "." ELSE text[i]]

\* DashboardComponent.parseFormattedAmount(amount)
ParseFormattedAmount(amount) == ParseFloat(ReplaceComma(RemoveDots(amount)))

\* DashboardComponent.formatAmount(amount)
DashboardFormatAmount(cents) ==
  LET formattedAmount == ToLocaleString(cents)
  IN IF cents < 0 THEN <<"-", " ">> \o Tail(formattedAmount) ELSE formattedAmount

\* DashboardComponent.updateSaldo() on the two texts
UpdateSaldo(income, expenses) ==
  DashboardFormatAmount(ParseFormattedAmount(income) - ParseFormattedAmount(expenses))

\* new Date(year, 0, 1).toISOString()
StartOfYear(year) == ToISOString(<<year, 0, 1>>)

\* the sum of gross over the documents `ids` of the transactions collection
RECURSIVE SumDocs(_)
SumDocs(ids) ==
  IF ids = {} THEN 0
  ELSE LET id == CHOOSE k \in ids : TRUE
       IN transactions[id].gross + SumDocs(ids \ {id})

\* the query of getTotalIncome(year)
IncomeQuery(userId, year) ==
  {k \in WhereUserId(transactions, userId) :
     /\ transactions[k].incomeExpenses = "income"
     /\ DateLeq(StartOfYear(year), transactions[k].date)
     /\ DateLeq(transactions[k].date, StartOfYear(year + 1))}
\* the query of getTotalExpenses(year)
ExpensesQuery(userId, year) ==
  {k \in WhereUserId(transactions, userId) :
     /\ transactions[k].incomeExpenses = "expense"
     /\ DateLeq(StartOfYear(year), transactions[k].date)
     /\ DateLess(transactions[k].date, StartOfYear(year + 1))}
\* the query of getChartData(year)
ChartQuery(userId, year) ==
  {k \in WhereUserId(transactions, userId) :
     /\ DateLeq(StartOfYear(year), transactions[k].date)
     /\ DateLess(transactions[k].date, StartOfYear(year + 1))}

\* what getTotalIncome(year) and getTotalExpenses(year) emit
GetTotalIncome(userId, year) == ServiceFormatAmount(SumDocs(IncomeQuery(userId, year)))
GetTotalExpenses(userId, year) == ServiceFormatAmount(SumDocs(ExpensesQuery(userId, year)))

\* new Date(data.date).getMonth()
GetMonth(iso) == FromISOString(iso)[2]

\* a variant that counts every document as income
IsIncomeAlways(doc) == TRUE
\* data.incomeExpenses === 'income'
IsIncome(doc) == doc.incomeExpenses = "income"

\* getChartData(year): incomeData and expensesData, index 1 standing for January
GetChartData(userId, year) ==
  LET docs == ChartQuery(userId, year)
      of(m) == {k \in docs : GetMonth(transactions[k].date) = m}
  IN [income |-> [i \in 1 .. 12 |->
                    SumDocs({k \in of(i - 1) : IsIncome(transactions[k])})],
      expenses |-> [i \in 1 .. 12 |->
                    SumDocs({k \in of(i - 1) : ~IsIncome(transactions[k])})]]

(***************************************************************************)
(* ReportsComponent: generating and naming reports.                        *)
(***************************************************************************)
\* generateReport asks for transactions at most this many times
MaxReports == 3

\* the user of the session that shows the dashboard and the reports
ViewUser == "u1"

\* the documents `ids` of the transactions collection as a list ordered by date
RECURSIVE OrderByDate(_)
OrderByDate(ids) ==
  IF ids = {} THEN <<>>
  ELSE LET first == CHOOSE k \in ids :
                      \A j \in ids : DateLeq(transactions[k].date, transactions[j].date)
       IN <<transactions[first]>> \o OrderByDate(ids \ {first})

\* getTransactionsBetweenDates(startDate, endDate) for the signed-in user
GetTransactionsBetweenDates(userId, startDate, endDate) ==
  OrderByDate({k \in WhereUserId(transactions, userId) :
                 /\ DateLeq(ToISOString(startDate), transactions[k].date)
                 /\ DateLeq(transactions[k].date, ToISOString(endDate))})

\* the number as generateUniqueReportName writes it into a name
CountText(count) == DecimalDigits(count)

\* a variant that tries the suffix 2 only
GenerateUniqueReportNameOnce(baseName) ==
  IF \E i \in DOMAIN reports : reports[i] = baseName
    THEN baseName \o <<" ", "-", " ">> \o CountText(2)
    ELSE baseName

\* the loop of generateUniqueReportName, entered with the candidate uniqueName
\* and the next count
RECURSIVE UniqueNameLoop(_, _, _)
UniqueNameLoop(baseName, uniqueName, count) ==
  IF \E i \in DOMAIN reports : reports[i] = uniqueName
    THEN UniqueNameLoop(baseName, baseName \o <<" ", "-", " ">> \o CountText(count),
                        count + 1)
    ELSE uniqueName

\* ReportsComponent.generateUniqueReportName(baseName)
GenerateUniqueReportName(baseName) == UniqueNameLoop(baseName, baseName, 2)

\* the month names loadMonths has loaded
MonthName(month) == <<"MONTH", NumberToString(month)>>

\* the years and months the user selects in the reports view
ReportYears == {2023, 2024}
ReportMonths == {3}

\* the user selects a year, or a month, in the reports view
SelectYear(year) ==
  /\ generated < MaxReports
  /\ reportYear # year
  /\ reportYear' = year
  /\ UNCHANGED <<reportMonth, reports, pendingReports, savingReports, reportsCollection,
                 generated, reportWriters, storeVars, sessionVars, lateVars, dueVars, moreVars,
                 pdfVars, dashVars>>
SelectMonth(month) ==
  /\ generated < MaxReports
  /\ reportMonth # month
  /\ reportMonth' = month
  /\ UNCHANGED <<reportYear, reports, pendingReports, savingReports, reportsCollection,
                 generated, reportWriters, storeVars, sessionVars, lateVars, dueVars, moreVars,
                 pdfVars, dashVars>>

\* generateReport(reportType) up to the request for the transactions
GenerateReport(reportType) ==
  /\ generated < MaxReports
  /\ IF reportType = "monthly" /\ reportMonth # 0 /\ reportYear # 0
       THEN pendingReports' = Append(pendingReports,
              [reportType |-> reportType, monthName |-> MonthName(reportMonth),
               startDate |-> <<reportYear, reportMonth - 1, 1>>,
               endDate |-> SetDate(<<reportYear, reportMonth, 1>>, 0)])
       ELSE /\ reportType = "yearly" /\ reportYear # 0
            /\ pendingReports' = Append(pendingReports,
                 [reportType |-> reportType, monthName |-> <<>>,
                  startDate |-> <<reportYear, 0, 1>>,
                  endDate |-> SetDate(<<reportYear + 1, 0, 1>>, 0)])
  /\ generated' = generated + 1
  /\ UNCHANGED <<reportYear, reportMonth, reports, savingReports, reportsCollection,
                 reportWriters, storeVars, sessionVars, lateVars, dueVars, moreVars, pdfVars, dashVars>>

\* the text of a year
YearText(year) == DecimalDigits(year)

\* what pendingReports holds without its i-th entry
Without(seq, i) == SubSeq(seq, 1, i - 1) \o SubSeq(seq, i + 1, Len(seq))

\* the subscriber of generateReport receives the transactions of request i
ReportResponse(i) ==
  /\ i \in DOMAIN pendingReports
  /\ pendingReports' = Without(pendingReports, i)
  /\ IF reportYear # 0
       THEN LET request == pendingReports[i]
                list == GetTransactionsBetweenDates(ViewUser, request.startDate,
                                                    request.endDate)
                baseName == IF request.reportType = "monthly"
                              THEN <<"MONTHLY_REPORT", " ">> \o request.monthName
                                     \o <<" ">> \o YearText(reportYear)
                              ELSE <<"YEARLY_REPORT", " ">> \o YearText(reportYear)
                reportName == GenerateUniqueReportName(baseName)
            IN /\ pdfTransactions' = list
               /\ pdfCreated' = TRUE
               /\ categoriesData' = CalculateCategories(list)
               /\ guvData' = CalculateGuV(list)
               /\ reports' = Append(reports, reportName)
               /\ savingReports' = Append(savingReports, reportName)
               /\ reportMonth' = 0
               /\ reportYear' = 0
       ELSE UNCHANGED <<pdfVars, reports, savingReports, reportMonth, reportYear>>
  /\ UNCHANGED <<reportsCollection, generated, reportWriters, storeVars, sessionVars, lateVars,
                 dueVars, moreVars, dashVars>>

\* saveReport: the document is written once the blob has been converted
SaveReportWrites ==
  /\ savingReports # <<>>
  /\ reportsCollection' = Append(reportsCollection, Head(savingReports))
  /\ reportWriters' = Append(reportWriters, ViewUser)
  /\ savingReports' = Tail(savingReports)
  /\ UNCHANGED <<reportYear, reportMonth, reports, pendingReports, generated,
                 storeVars, sessionVars, lateVars, dueVars, moreVars, pdfVars, dashVars>>
\* saveReport: the conversion or the write fails
SaveReportFails ==
  /\ savingReports # <<>>
  /\ savingReports' = Tail(savingReports)
  /\ UNCHANGED <<reportYear, reportMonth, reports, pendingReports, reportsCollection,
                 generated, reportWriters, storeVars, sessionVars, lateVars, dueVars, moreVars,
                 pdfVars, dashVars>>

\* the subscriber of loadReports receives a snapshot of the collection
LoadReports ==
  /\ reports # reportsCollection
  /\ reports' = reportsCollection
  /\ UNCHANGED <<reportYear, reportMonth, pendingReports, savingReports,
                 reportsCollection, generated, reportWriters, storeVars, sessionVars, lateVars,
                 dueVars, moreVars,
                 pdfVars, dashVars>>

(***************************************************************************)
(* DashboardComponent and the reports view over one stored collection      *)
(* (SpecViews).  Amounts are counted in cents.                             *)
(***************************************************************************)
\* the years the year dialog returns
DashboardYears == {2023, 2024}

\* the three requests updateDashboardData(year) and generateChart() send
DashboardRequests(year) ==
  {[kind |-> k, year |-> year] : k \in {"income", "expenses", "chart"}}

\* the subscriber of openYearDialog receives the dialog's result
OpenYearDialog(result) ==
  /\ yearChanges < MaxYearChanges
  /\ yearChanges' = yearChanges + 1
  /\ selectedYear' = result
  /\ pending' = pending \cup DashboardRequests(result)
  /\ UNCHANGED <<totalIncome, totalExpenses, saldo, chartYear, incomeData, expensesData,
                 saldoPositive, saldoNegative, storeVars, sessionVars, lateVars, dueVars, moreVars,
                 pdfVars, reportVars>>

\* the first subscriber of updateDashboardData receives the total income
TotalIncomeResponse(year) ==
  /\ [kind |-> "income", year |-> year] \in pending
  /\ pending' = pending \ {[kind |-> "income", year |-> year]}
  /\ totalIncome' = GetTotalIncome(ViewUser, year)
  /\ saldo' = UpdateSaldo(totalIncome', totalExpenses)
  /\ UNCHANGED <<selectedYear, totalExpenses, yearChanges, chartYear, incomeData,
                 expensesData, saldoPositive, saldoNegative, storeVars, sessionVars, lateVars,
                 dueVars, moreVars, pdfVars, reportVars>>

\* the second subscriber of updateDashboardData receives the total expenses
TotalExpensesResponse(year) ==
  /\ [kind |-> "expenses", year |-> year] \in pending
  /\ pending' = pending \ {[kind |-> "expenses", year |-> year]}
  /\ totalExpenses' = GetTotalExpenses(ViewUser, year)
  /\ saldo' = UpdateSaldo(totalIncome, totalExpenses')
  /\ UNCHANGED <<selectedYear, totalIncome, yearChanges, chartYear, incomeData,
                 expensesData, saldoPositive, saldoNegative, storeVars, sessionVars, lateVars,
                 dueVars, moreVars, pdfVars, reportVars>>

\* saldo > 0 ? saldo : 0 and saldo < 0 ? -saldo : 0
SaldoPositive(s) == IF s > 0 THEN s ELSE 0
SaldoNegative(s) == IF s < 0 THEN -s ELSE 0

\* the subscriber of generateChart receives the chart data
ChartDataResponse(year) ==
  /\ [kind |-> "chart", year |-> year] \in pending
  /\ pending' = pending \ {[kind |-> "chart", year |-> year]}
  /\ LET chartData == GetChartData(ViewUser, year)
         saldoData == [i \in 1 .. 12 |-> chartData.income[i] - chartData.expenses[i]]
     IN /\ incomeData' = chartData.income
        /\ expensesData' = chartData.expenses
        /\ saldoPositive' = [i \in 1 .. 12 |-> SaldoPositive(saldoData[i])]
        /\ saldoNegative' = [i \in 1 .. 12 |-> SaldoNegative(saldoData[i])]
  /\ chartYear' = year
  /\ UNCHANGED <<selectedYear, totalIncome, totalExpenses, saldo, yearChanges,
                 storeVars, sessionVars, lateVars, dueVars, moreVars, pdfVars, reportVars>>

\* the order of two document names `${userId}_${documentNumber}` of one user
DocumentNameLess(a, b) ==
  IF Len(a) # Len(b) THEN Len(a) < Len(b)
  ELSE ParseInt(a[Len(a)]) < ParseInt(b[Len(b)])

\* the documents `ids` of the transactions collection in the order of a query
\* without orderBy: ascending by document name
RECURSIVE OrderByName(_)
OrderByName(ids) ==
  IF ids = {} THEN <<>>
  ELSE LET first == CHOOSE k \in ids : \A j \in ids \ {k} : DocumentNameLess(k, j)
       IN <<transactions[first]>> \o OrderByName(ids \ {first})

\* what getTransactions() emits for the signed-in user: the query is the value
\* of ref.orderBy('dateInMillis', 'desc') && ref.where('userId', '==', userId),
\* which is its second operand
GetTransactions(userId) == OrderByName(WhereUserId(transactions, userId))

\* the subscriber of getTransactions() in the session `c` receives the list
GetTransactionsEmits(c) ==
  /\ "transactions" \notin received[c]
  /\ received' = [received EXCEPT ![c] = @ \cup {"transactions"}]
  /\ returned' = [returned EXCEPT ![c].transactions = GetTransactions(ClientUser[c])]
  /\ UNCHANGED <<budgets, categories, seeding, seedWrites, storeVars, sessionVars, lateVars,
                 dueVars, pdfVars, dashVars, reportVars>>

\* the documents the stored collection is drawn from
ViewEntry(n, date, gross, category, incomeExpenses) ==
  [EmptyEntry EXCEPT !.documentNumber = NumberToString(n),
                     !.date = date, !.gross = gross, !.net = gross,
                     !.dateInMillis = GetTime(date),
                     !.description = "d", !.category = category,
                     !.incomeExpenses = incomeExpenses]
ViewDocs ==
  <<TransactionData(ViewEntry(1, <<2024, 2, 10>>, 10000, "Income", "income"), "u1"),
    TransactionData(ViewEntry(2, <<2024, 2, 20>>, 4000, "Rent", "expense"), "u1"),
    TransactionData(ViewEntry(3, <<2024, 0, 1>>, 123456, "", "expense"), "u1"),
    TransactionData(ViewEntry(4, <<2024, 0, 1>>, 1250, "Income", "income"), "u1"),
    TransactionData(ViewEntry(5, <<2024, 2, 5>>, 7000, "Income", "income"), "u2")>>
ViewCollection(chosen) ==
  [k \in {DocumentId(ViewDocs[i].userId, NumberToString(i)) : i \in chosen} |->
     ViewDocs[CHOOSE i \in chosen : k = DocumentId(ViewDocs[i].userId, NumberToString(i))]]

\* a stored collection, the dashboard after ngOnInit and ngAfterViewInit
InitViews ==
  /\ counters = [u \in Users |-> NullNum]
  /\ transactions \in {ViewCollection(chosen) : chosen \in SUBSET (1 .. Len(ViewDocs))}
  /\ emptied = [u \in Users |-> ""]
  /\ skipped = [u \in Users |-> Left(0)]
  /\ InitSessions /\ InitDueIdle /\ InitPdfIdle /\ InitReportsIdle /\ InitMoreIdle
  /\ InitLateIdle
  /\ selectedYear = 2024
  /\ totalIncome = <<"0", ",", "0", "0">>
  /\ totalExpenses = <<"0", ",", "0", "0">>
  /\ saldo = <<"0", ",", "0", "0">>
  /\ pending = DashboardRequests(2024)
  /\ yearChanges = 0
  /\ chartYear = 0
  /\ incomeData = <<>>
  /\ expensesData = <<>>
  /\ saldoPositive = <<>>
  /\ saldoNegative = <<>>

\* the dashboard, and one yearly report generated from the same collection
\* for the year the dashboard shows once the dashboard's requests are answered
NextViews ==
  \/ \E result \in DashboardYears : OpenYearDialog(result)
  \/ \E year \in DashboardYears : TotalIncomeResponse(year)
  \/ \E year \in DashboardYears : TotalExpensesResponse(year)
  \/ \E year \in DashboardYears : ChartDataResponse(year)
  \/ pending = {} /\ generated = 0 /\ SelectYear(selectedYear)
  \/ pending = {} /\ generated = 0 /\ GenerateReport("yearly")
  \/ \E i \in 1 .. MaxReports : ReportResponse(i)

SpecViews == InitViews /\ [][NextViews]_vars

(***************************************************************************)
(* The reports view with its collection (SpecReports).                     *)
(***************************************************************************)
\* the names the 'reports' collection holds when the view is opened
YearlyBase(year) == <<"YEARLY_REPORT", " ">> \o YearText(year)
Suffixed(baseName, count) == baseName \o <<" ", "-", " ">> \o CountText(count)
StoredReportLists ==
  {<<>>, <<YearlyBase(2024)>>, <<YearlyBase(2024), Suffixed(YearlyBase(2024), 3)>>,
   <<Suffixed(YearlyBase(2024), 2), YearlyBase(2023)>>}

InitReports ==
  /\ InitStore /\ InitSessions /\ InitDueIdle /\ InitPdfIdle /\ InitDashIdle
  /\ InitMoreIdle /\ InitLateIdle
  /\ reportYear = 0
  /\ reportMonth = 0
  /\ reports = <<>>
  /\ pendingReports = <<>>
  /\ savingReports = <<>>
  /\ reportsCollection \in StoredReportLists
  /\ generated = 0
  /\ reportWriters = [i \in DOMAIN reportsCollection |-> ViewUser]

NextReports ==
  \/ \E year \in ReportYears : SelectYear(year)
  \/ \E month \in ReportMonths : SelectMonth(month)
  \/ \E reportType \in {"monthly", "yearly"} : GenerateReport(reportType)
  \/ \E i \in 1 .. MaxReports : ReportResponse(i)
  \/ SaveReportWrites
  \/ SaveReportFails
  \/ LoadReports

SpecReports == InitReports /\ [][NextReports]_vars

(***************************************************************************)
(* BudgetComponent, BudgetDialogComponent and BudgetService (SpecBudget).  *)
(***************************************************************************)
\* budgets are written at most this many times
MaxBudgets == 2

\* the fields of a BudgetEntry the checks read; id 0 stands for no id
NewBudget ==
  [id |-> 0, title |-> "", amount |-> 0, spent |-> 0, goalDate |-> <<2024, 12, 31>>,
   category |-> "", type |-> "saving", userId |-> NoUser]

\* what the user has typed into the budget form or the dialog's form
BudgetInputs ==
  {[NewBudget EXCEPT !.title = "car", !.amount = 5000, !.category = "Transport"],
   [NewBudget EXCEPT !.title = "car", !.amount = 0, !.category = "Transport"],
   [NewBudget EXCEPT !.title = "car", !.amount = 0 - 100, !.category = "Transport"],
   [NewBudget EXCEPT !.title = "", !.amount = 5000, !.category = "Transport"],
   [NewBudget EXCEPT !.title = "car", !.amount = 5000, !.category = ""],
   [NewBudget EXCEPT !.title = "car", !.amount = 5000, !.category = "Transport",
                     !.goalDate = NoDate]}

\* BudgetComponent.isValidBudget(budget)
IsValidBudget(budget) ==
  /\ budget.title # ""
  /\ budget.amount > 0
  /\ budget.goalDate # NoDate
  /\ budget.category # ""

\* budgetForm.valid: Validators.required on title, amount, spent, goalDate,
\* category, status and type, Validators.min(0) on amount and spent
BudgetFormValid(form) ==
  /\ form.title # ""
  /\ form.amount # NullNum /\ form.amount >= 0
  /\ form.spent # NullNum /\ form.spent >= 0
  /\ form.goalDate # NoDate
  /\ form.category # ""
  /\ form.type # ""

\* BudgetService.addBudget(budget) in the session `c`: createId() is the
\* position of the new document
AddBudget(c, budget) ==
  budgets' = Append(budgets, [budget EXCEPT !.id = Len(budgets) + 1,
                                              !.userId = ClientUser[c]])

\* BudgetService.updateBudget(id, budget): the fields of the form replace
\* those of the document, which keeps its userId
UpdateBudget(id, budget) ==
  budgets' = [budgets EXCEPT ![id] = [budget EXCEPT !.userId = budgets[id].userId]]

\* BudgetComponent.saveBudget() with `budget` in the form
SaveBudget(c, budget) ==
  /\ Len(budgets) < MaxBudgets
  /\ IsValidBudget(budget)
  /\ AddBudget(c, budget)
  /\ UNCHANGED <<categories, seeding, seedWrites, returned, received, storeVars,
                 sessionVars, lateVars, dueVars, pdfVars, dashVars, reportVars>>

\* the budgets of the user of session `c`, as getBudgets() emits them
GetBudgets(c) == SelectSeq(budgets, LAMBDA b : b.userId = ClientUser[c])

\* openBudgetDialog(data), the form filled with `form`, onSave() and the
\* subscriber of afterClosed(); `edited` is the id of the budget edited, 0
\* for a new one
BudgetDialogSave(c, edited, form) ==
  /\ edited = 0 \/ (edited \in DOMAIN budgets /\ budgets[edited].userId = ClientUser[c])
  /\ edited = 0 => Len(budgets) < MaxBudgets
  /\ BudgetFormValid(form)
  /\ LET result == [form EXCEPT !.id = edited]
     IN IF result.id # 0
          THEN UpdateBudget(result.id, result)
          ELSE AddBudget(c, result)
  /\ UNCHANGED <<categories, seeding, seedWrites, returned, received, storeVars,
                 sessionVars, lateVars, dueVars, pdfVars, dashVars, reportVars>>

\* the subscriber of getBudgets() in the session `c` receives the list
GetBudgetsEmits(c) ==
  /\ "budgets" \notin received[c] \/ returned[c].budgets # GetBudgets(c)
  /\ received' = [received EXCEPT ![c] = @ \cup {"budgets"}]
  /\ returned' = [returned EXCEPT ![c].budgets = GetBudgets(c)]
  /\ UNCHANGED <<budgets, categories, seeding, seedWrites, storeVars, sessionVars, lateVars,
                 dueVars, pdfVars, dashVars, reportVars>>

NextBudget ==
  \E c \in Clients :
    \/ \E budget \in BudgetInputs : SaveBudget(c, budget)
    \/ \E form \in BudgetInputs, edited \in 0 .. MaxBudgets :
         BudgetDialogSave(c, edited, form)
    \/ GetBudgetsEmits(c)

SpecBudget == Init /\ [][NextBudget]_vars

(***************************************************************************)
(* CategoriesService and the categories view (SpecSeed).                   *)
(***************************************************************************)
\* a user's default categories are written at most this many times, and a
\* user adds at most this many categories
MaxSeedWrites == 2
MaxAdded == 1

\* initialCategories
InitialCategories ==
  <<"Income", "Groceries", "Rent", "Transport", "Entertainment", "Health",
    "Miscellaneous">>

\* the names a user types into the categories view
NewCategoryNames == {"Pets"}

\* ref.where('userId', '==', userId) on the categories collection
CategoriesOf(userId) == SelectSeq(categories, LAMBDA d : d.userId = userId)

\* initializeCategories(): the query for the user's categories is answered;
\* "empty" when the snapshot holds no document
InitializeCategoriesRead(c) ==
  /\ seeding[c] = "idle"
  /\ seeding' = [seeding EXCEPT ![c] =
                   IF CategoriesOf(ClientUser[c]) = <<>> THEN "empty" ELSE "done"]
  /\ UNCHANGED <<budgets, categories, seedWrites, returned, received, storeVars,
                 sessionVars, lateVars, dueVars, pdfVars, dashVars, reportVars>>

\* initializeCategories(): the batch with the default categories is committed;
\* the documents carry name and userId, and no id field (id 0)
InitializeCategoriesCommit(c) ==
  /\ seeding[c] = "empty"
  /\ seedWrites[ClientUser[c]] < MaxSeedWrites
  /\ seeding' = [seeding EXCEPT ![c] = "done"]
  /\ categories' = categories \o
       [i \in 1 .. Len(InitialCategories) |->
          [id |-> 0, name |-> InitialCategories[i], userId |-> ClientUser[c]]]
  /\ seedWrites' = [seedWrites EXCEPT ![ClientUser[c]] = @ + 1]
  /\ UNCHANGED <<budgets, returned, received, storeVars, sessionVars, lateVars, dueVars,
                 pdfVars, dashVars, reportVars>>

\* the application is loaded anew in the session: the service is constructed
\* and initializeCategories() runs again
Reload(c) ==
  /\ seeding[c] = "done"
  /\ seeding' = [seeding EXCEPT ![c] = "idle"]
  /\ UNCHANGED <<budgets, categories, seedWrites, returned, received, storeVars,
                 sessionVars, lateVars, dueVars, pdfVars, dashVars, reportVars>>

\* createId(): an id no document of the collection has
CreateId(coll) ==
  1 + (IF coll = <<>> THEN 0
       ELSE CHOOSE m \in {coll[i].id : i \in DOMAIN coll} :
              \A i \in DOMAIN coll : coll[i].id <= m)

\* CategoriesService.addCategory(name) in the session `c`
AddCategory(c, name) ==
  /\ Cardinality({i \in DOMAIN categories : categories[i].id # 0}) < MaxAdded
  /\ categories' = Append(categories, [id |-> CreateId(categories), name |-> name,
                                       userId |-> ClientUser[c]])
  /\ UNCHANGED <<budgets, seeding, seedWrites, returned, received, storeVars,
                 sessionVars, lateVars, dueVars, pdfVars, dashVars, reportVars>>

\* deleteCategories(category) confirmed for the i-th document, one of the
\* user's list: deleteCategory(category.id) removes the document with that
\* id; a seeded document has no id field, and doc(undefined).delete()
\* removes no stored document
DeleteCategory(c, i) ==
  /\ i \in DOMAIN categories
  /\ categories[i].userId = ClientUser[c]
  /\ categories' = IF categories[i].id = 0 THEN categories
                   ELSE SelectSeq(categories, LAMBDA d : d.id # categories[i].id)
  /\ removal' = [removal EXCEPT ![c] = categories[i]]
  /\ UNCHANGED <<budgets, seeding, seedWrites, returned, received, storeVars,
                 sessionVars, prefVars, pageVars, dueVars, pdfVars, dashVars, reportVars>>

\* the subscriber of getCategories() in the session `c` receives the list
GetCategoriesEmits(c) ==
  /\ "categories" \notin received[c] \/ returned[c].categories # CategoriesOf(ClientUser[c])
  /\ received' = [received EXCEPT ![c] = @ \cup {"categories"}]
  /\ returned' = [returned EXCEPT ![c].categories = CategoriesOf(ClientUser[c])]
  /\ UNCHANGED <<budgets, categories, seeding, seedWrites, storeVars, sessionVars, lateVars,
                 dueVars, pdfVars, dashVars, reportVars>>

\* the sessions of one user
SeedClients == {"c1", "c2"}

NextSeed ==
  \E c \in SeedClients :
    \/ InitializeCategoriesRead(c)
    \/ InitializeCategoriesCommit(c)
    \/ Reload(c)
    \/ \E name \in NewCategoryNames : AddCategory(c, name)
    \/ \E i \in 1 .. MaxSeedWrites * 7 + MaxAdded : DeleteCategory(c, i)
    \/ GetCategoriesEmits(c)

SpecSeed == Init /\ [][NextSeed]_vars

(***************************************************************************)
(* The queries of two users' sessions over the four collections            *)
(* (SpecScope).                                                            *)
(***************************************************************************)
\* the two sessions write at most this many times in all
MaxScopeWrites == 2

\* the writes so far: budgets, reports, added categories, default categories
ScopeWrites ==
  Len(budgets) + Len(reportsCollection)
    + Cardinality({i \in DOMAIN categories : categories[i].id # 0})
    + seedWrites["u1"] + seedWrites["u2"]

\* ReportService.saveReport(report) in the session `c`: the document holds
\* name, data and createdAt
SaveReport(c, name) ==
  /\ ScopeWrites < MaxScopeWrites
  /\ reportsCollection' = Append(reportsCollection, name)
  /\ reportWriters' = Append(reportWriters, ClientUser[c])
  /\ UNCHANGED <<reportYear, reportMonth, reports, pendingReports, savingReports,
                 generated, storeVars, sessionVars, lateVars, dueVars, moreVars, pdfVars, dashVars>>

\* ReportService.getReports(): every document of the collection, the newest
\* first; id is the document's position in the collection
GetReports ==
  [i \in 1 .. Len(reportsCollection) |->
     [id |-> Len(reportsCollection) + 1 - i,
      name |-> reportsCollection[Len(reportsCollection) + 1 - i]]]

\* the subscriber of getReports() in the session `c` receives the snapshot
GetReportsEmits(c) ==
  /\ "reports" \notin received[c] \/ returned[c].reports # GetReports
  /\ received' = [received EXCEPT ![c] = @ \cup {"reports"}]
  /\ returned' = [returned EXCEPT ![c].reports = GetReports]
  /\ UNCHANGED <<budgets, categories, seeding, seedWrites, storeVars, sessionVars, lateVars,
                 dueVars, pdfVars, dashVars, reportVars>>

\* a session of each user
ScopeClients == {"c1", "c3"}

\* both users have stored transactions
InitScope ==
  /\ counters = [u \in Users |-> NullNum]
  /\ transactions = ViewCollection(1 .. Len(ViewDocs))
  /\ emptied = [u \in Users |-> ""]
  /\ skipped = [u \in Users |-> Left(0)]
  /\ InitSessions /\ InitDueIdle /\ InitRest

NextScope ==
  \E c \in ScopeClients :
    \/ /\ ScopeWrites < MaxScopeWrites
       /\ SaveBudget(c, [NewBudget EXCEPT !.title = "car", !.amount = 5000,
                                          !.category = "Transport"])
    \/ GetBudgetsEmits(c)
    \/ InitializeCategoriesRead(c)
    \/ ScopeWrites < MaxScopeWrites /\ InitializeCategoriesCommit(c)
    \/ ScopeWrites < MaxScopeWrites /\ \E name \in NewCategoryNames : AddCategory(c, name)
    \/ GetCategoriesEmits(c)
    \/ SaveReport(c, YearlyBase(2024))
    \/ GetReportsEmits(c)
    \/ GetTransactionsEmits(c)

SpecScope == InitScope /\ [][NextScope]_vars

(***************************************************************************)
(* AppComponent: the preferences in local storage (SpecPrefs).  A stored   *)
(* or applied string is a record: cipher tells whether it is the output of *)
(* AES.encrypt, text is the plain text it holds.                           *)
(***************************************************************************)
Languages == {"de", "en"}
Themes == {"light", "dark"}

\* a plain string as an item
Plain(text) == [cipher |-> FALSE, text |-> text]

\* crypto.AES.encrypt(text, environment.encryptionKey).toString()
Encrypt(text) == [cipher |-> TRUE, text |-> text]

\* crypto.AES.decrypt(item, environment.encryptionKey).toString(crypto.enc.Utf8):
\* a string that is no cipher text (a language code, a theme name) holds less
\* than one block and decrypts to the empty string
Decrypt(item) == IF item.cipher THEN item.text ELSE ""

\* the truthiness of a string read from local storage
ItemTruthy(item) == item.cipher \/ item.text # ""

\* applyLanguage(language) and applyTheme(theme), each on its two variables
ApplyLanguage(language) ==
  /\ appliedLanguage' = language
  /\ storedLanguage' = language
ApplyTheme(theme) ==
  /\ appliedTheme' = theme
  /\ storedTheme' = theme

\* AppComponent.savePreferences(language, theme): setItem stores
\* Encrypt(language) and Encrypt(theme); applyLanguage and applyTheme, called
\* next, store the plain values under the same keys, which is what the items
\* hold when the method returns
SavePreferences(language, theme) ==
  /\ ApplyLanguage(Plain(language))
  /\ ApplyTheme(Plain(theme))
  /\ settings' = IF isLoggedIn THEN [language |-> language, theme |-> theme]
                 ELSE settings
  /\ saved' = [language |-> language, theme |-> theme]
  /\ lastPreference' = "save"
  /\ UNCHANGED <<isLoggedIn, storeVars, sessionVars, dueVars, pdfVars, dashVars,
                 reportVars, moreVars, lateRest>>

\* settings.language || 'en' and settings.theme || 'light'
OrDefault(text, default) == IF text = "" THEN default ELSE text

\* the branch of loadPreferences for a signed-in user, getSettings answered
LoadFromServer ==
  /\ ApplyLanguage(Plain(OrDefault(settings.language, "en")))
  /\ ApplyTheme(Plain(OrDefault(settings.theme, "light")))

\* the branch of loadPreferences without a signed-in user
LoadFromStorage ==
  IF ItemTruthy(storedLanguage) /\ ItemTruthy(storedTheme)
    THEN /\ ApplyLanguage(Plain(Decrypt(storedLanguage)))
         /\ ApplyTheme(Plain(Decrypt(storedTheme)))
    ELSE UNCHANGED <<appliedLanguage, storedLanguage, appliedTheme, storedTheme>>

\* AppComponent.loadPreferences()
LoadPreferences ==
  /\ IF isLoggedIn THEN LoadFromServer ELSE LoadFromStorage
  /\ lastPreference' = IF isLoggedIn THEN "loadServer" ELSE "loadStorage"
  /\ UNCHANGED <<isLoggedIn, settings, saved, storeVars, sessionVars, dueVars,
                 pdfVars, dashVars, reportVars, moreVars, lateRest>>

\* the subscriber of isUserLoggedIn() in ngOnInit receives the state
AuthState(loggedIn) ==
  /\ isLoggedIn' = loggedIn
  /\ IF loggedIn THEN LoadFromServer
     ELSE UNCHANGED <<appliedLanguage, storedLanguage, appliedTheme, storedTheme>>
  /\ lastPreference' = IF loggedIn THEN "loadServer" ELSE "auth"
  /\ UNCHANGED <<settings, saved, storeVars, sessionVars, dueVars, pdfVars,
                 dashVars, reportVars, moreVars, lateRest>>

\* the page is loaded anew: ngOnInit applies the stored language, or 'de'
NgOnInit ==
  /\ ApplyLanguage(IF ItemTruthy(storedLanguage) THEN storedLanguage ELSE Plain("de"))
  /\ appliedTheme' = Plain("")
  /\ isLoggedIn' = FALSE
  /\ lastPreference' = "init"
  /\ UNCHANGED <<storedTheme, settings, saved, storeVars, sessionVars, dueVars,
                 pdfVars, dashVars, reportVars, moreVars, lateRest>>

NextPrefs ==
  \/ \E language \in Languages, theme \in Themes : SavePreferences(language, theme)
  \/ LoadPreferences
  \/ \E loggedIn \in BOOLEAN : AuthState(loggedIn)
  \/ NgOnInit

SpecPrefs == Init /\ [][NextPrefs]_vars

(***************************************************************************)
(* BudgetComponent's lists under the paginator (SpecPages).                *)
(***************************************************************************)
\* the paginator's page index and page size stay within these
MaxPageIndex == 1
MaxPageSize == 2

\* the budgets saved through the budget form
PagedInputs ==
  {[NewBudget EXCEPT !.title = "car", !.amount = 5000, !.category = "Transport"],
   [NewBudget EXCEPT !.title = "food", !.amount = 300, !.category = "Groceries",
                     !.type = "spending"]}

\* list.slice(start, end) with 0 <= start <= end
Slice(list, start, end) ==
  IF start >= Len(list) THEN <<>>
  ELSE SubSeq(list, start + 1, IF end < Len(list) THEN end ELSE Len(list))

\* budgets.filter(budget => budget.type === type)
OfType(list, type) == SelectSeq(list, LAMBDA budget : budget.type = type)

\* applyPagination() on the component's two lists, with the paginator at
\* page `index` of size `size`
ApplyPagination(lists, index, size) ==
  LET startIndex == index * size
  IN [saving |-> Slice(lists.saving, startIndex, startIndex + size),
      spending |-> Slice(lists.spending, startIndex, startIndex + size)]

\* applySorting() with no column chosen: the comparison returns 0 for every
\* pair, the merged list keeps its order and is split by type again
ApplySorting(lists) ==
  LET data == lists.saving \o lists.spending
  IN [saving |-> OfType(data, "saving"), spending |-> OfType(data, "spending")]

\* splitBudgets(budgets)
SplitBudgets(list, index, size) ==
  ApplySorting(ApplyPagination([saving |-> OfType(list, "saving"),
                                spending |-> OfType(list, "spending")],
                               index, size))

\* the subscriber of getBudgets() in loadBudgets receives the user's list
LoadBudgetsEmits(c) ==
  /\ "budgets" \notin received[c] \/ returned[c].budgets # GetBudgets(c)
  /\ received' = [received EXCEPT ![c] = @ \cup {"budgets"}]
  /\ returned' = [returned EXCEPT ![c].budgets = GetBudgets(c)]
  /\ LET lists == SplitBudgets(GetBudgets(c), pageIndex, pageSize)
     IN /\ savingBudgets' = lists.saving
        /\ spendingBudgets' = lists.spending
  /\ UNCHANGED <<pageIndex, pageSize, removal, prefVars, budgets, categories, seeding,
                 seedWrites, storeVars, sessionVars, dueVars, pdfVars, dashVars,
                 reportVars>>

\* the paginator moves to page `index` of size `size`: the subscriber of
\* paginator.page set up in ngAfterViewInit runs applyPagination()
PageEvent(index, size) ==
  /\ <<index, size>> # <<pageIndex, pageSize>>
  /\ pageIndex' = index
  /\ pageSize' = size
  /\ LET lists == ApplyPagination([saving |-> savingBudgets,
                                   spending |-> spendingBudgets], index, size)
     IN /\ savingBudgets' = lists.saving
        /\ spendingBudgets' = lists.spending
  /\ UNCHANGED <<removal, prefVars, moreVars, storeVars, sessionVars, dueVars, pdfVars,
                 dashVars, reportVars>>

\* the budget view of one session
PageClient == "c1"

NextPages ==
  \/ \E budget \in PagedInputs : SaveBudget(PageClient, budget)
  \/ LoadBudgetsEmits(PageClient)
  \/ \E index \in 0 .. MaxPageIndex, size \in 1 .. MaxPageSize : PageEvent(index, size)

SpecPages == Init /\ [][NextPages]_vars

(***************************************************************************)
(* Properties of the document numbering (SpecSeq, Spec).                   *)
(***************************************************************************)
\* session s completes an addTransaction successfully in this step
AddSucceeds(s) == pc[s] = "writeDoc" /\ pc'[s] = "done" /\ outcome'[s] = Emitted
\* session s completes the counter reset of a deleteTransaction in this step
ResetSucceeds(s) == pc[s] = "resetCounter" /\ pc'[s] = "done" /\ outcome'[s] = Emitted

\* C1: once a deleteTransaction has removed a user's only remaining stored
\* transaction and completed, that user's counter is 0, and the next
\* addTransaction of that user that succeeds is assigned documentNumber 1.
C1_NextAddGetsOne ==
  [][\A s \in Sessions :
       /\ ResetSucceeds(s) /\ emptied[uid[s]] = "removed" => counters'[uid[s]] = 0
       /\ AddSucceeds(s) /\ emptied[uid[s]] = "reset" => txn[s].documentNumber = "1"]_vars

\* session s holds a document number that addTransaction has just assigned
NewlyNumbered(s) ==
  op[s] = "add" /\ pc[s] \in {"writeDoc", "done"} /\ txn[s].documentNumber # ""

\* the user's stored transactions other than the one session s has just stored
StoredBefore(s) ==
  WhereUserId(transactions, uid[s])
    \ (IF outcome[s] = Emitted THEN {DocumentId(uid[s], txn[s].documentNumber)} ELSE {})

\* C2: with operations run one after the other, no two stored transactions
\* of a user share a documentNumber, and a newly assigned documentNumber is
\* greater than that of every transaction of the user still stored.
C2_UniqueAndIncreasing ==
  /\ \A k1, k2 \in DOMAIN transactions :
       k1 # k2 /\ transactions[k1].userId = transactions[k2].userId
         => transactions[k1].documentNumber # transactions[k2].documentNumber
  /\ \A s \in Sessions :
       NewlyNumbered(s) =>
         \A k \in StoredBefore(s) :
           ParseInt(transactions[k].documentNumber) < ParseInt(txn[s].documentNumber)

\* a new number is assigned while the user has a stored transaction that an
\* earlier add stored
C2_Witness ==
  \E s \in Sessions :
    /\ pc[s] = "writeDoc"
    /\ txn[s].documentNumber = "2"
    /\ DocumentId(uid[s], "1") \in DOMAIN transactions

\* C3: the number addTransaction assigns is the counter value it read plus
\* one, whatever the counter holds when it is written: nothing compares the
\* two, so two sessions that read the same value are given the same number.
C3_NumberFromValueRead ==
  \A s \in Sessions :
    NewlyNumbered(s) => txn[s].documentNumber = NumberToString(currentCounter[s] + 1)

\* two sessions of one user have both completed addTransaction with the same
\* documentNumber, having read the same counter value
C3_Witness ==
  \E s1, s2 \in Sessions :
    /\ s1 # s2 /\ uid[s1] = uid[s2]
    /\ op[s1] = "add" /\ op[s2] = "add"
    /\ outcome[s1] = Emitted /\ outcome[s2] = Emitted
    /\ currentCounter[s1] = currentCounter[s2]
    /\ txn[s1].documentNumber = txn[s2].documentNumber

(***************************************************************************)
(* Properties of edits and of the field checks (SpecSeq).                  *)
(***************************************************************************)
\* C4: updateTransaction on a transaction that addTransaction stored changes
\* that stored record: the edited fields take the new values, documentNumber
\* and userId stay.
C4_UpdateChangesStoredRecord ==
  \A s \in Sessions :
    LET documentId == DocumentId(uid[s], txn[s].documentNumber)
    IN /\ op[s] = "update" /\ pc[s] = "done"
       /\ uid[s] # NoUser /\ ~HasUndefinedFields(txn[s])
       /\ documentId \in DOMAIN transactions
       => /\ outcome[s] = Emitted
          /\ \A f \in DOMAIN UpdateData(txn[s]) :
               transactions[documentId][f] = UpdateData(txn[s])[f]
          /\ transactions[documentId].documentNumber = txn[s].documentNumber
          /\ transactions[documentId].userId = uid[s]

\* a stored document has every required field
Complete_(d) ==
  d.date # NoDate /\ d.gross # NullNum /\ d.net # NullNum
    /\ d.description # "" /\ d.incomeExpenses # ""

\* C5: a transaction lacking a required field is never written to the
\* transactions collection: the dialogs return without calling the service,
\* and addTransaction and updateTransaction end with the error 'Transaction
\* has undefined or null fields'.
C5_LackingFieldsRejected ==
  /\ \A k \in DOMAIN transactions : Complete_(transactions[k])
  /\ \A s \in Sessions :
       /\ caller[s] \in {"TransactionDialog", "StandingDialog"} /\ FormIncomplete(txn[s])
            => pc[s] = "done" /\ outcome[s] = Invalid /\ op[s] = ""
       /\ /\ caller[s] = "service" /\ pc[s] = "done" /\ uid[s] # NoUser
          /\ HasUndefinedFields(txn[s])
          /\ op[s] = "update" \/ (op[s] = "add" /\ txn[s].documentNumber # "")
          => outcome[s] \in {ErrUndefinedFields, WrapError(ErrUndefinedFields)}


\* net as the dialogs calculate it from gross
NetMatches(t) ==
  /\ t.incomeExpenses = "income" => t.net = t.gross
  /\ t.incomeExpenses = "expense" => t.net * 12 = t.gross * 10

FromDialog(s) == caller[s] \in {"TransactionDialog", "StandingDialog"}

\* what the dialogs hand to the service (to addTransaction on creation, to
\* updateTransaction on edit) has net = gross for income and net = gross / 1.2
\* for expense, and so has the document a successful creation stores
DialogNetFromGross ==
  \A s \in Sessions :
    FromDialog(s) /\ op[s] \in {"add", "update"} =>
      /\ NetMatches(txn[s])
      /\ op[s] = "add" /\ outcome[s] = Emitted =>
           LET documentId == DocumentId(uid[s], txn[s].documentNumber)
           IN /\ documentId \in DOMAIN transactions
              /\ transactions[documentId].gross = txn[s].gross
              /\ transactions[documentId].net = txn[s].net
              /\ NetMatches(transactions[documentId])

\* C6: once a signed-in user's submission through one of the dialogs has been
\* answered (for a creation: answered with success), the stored record of that document number
\* holds the submitted gross and type, with net = gross for income and
\* net = gross / 1.2 for expense, on creation and on edit alike.
C6_NetReachesStore ==
  \A s \in Sessions :
    /\ FromDialog(s) /\ op[s] \in {"add", "update"} /\ pc[s] = "done"
    /\ uid[s] # NoUser
    /\ op[s] = "add" => outcome[s] = Emitted
    => LET documentId == DocumentId(uid[s], txn[s].documentNumber)
       IN /\ documentId \in DOMAIN transactions
          /\ transactions[documentId].gross = txn[s].gross
          /\ transactions[documentId].incomeExpenses = txn[s].incomeExpenses
          /\ transactions[documentId].net = txn[s].net
          /\ NetMatches(transactions[documentId])

\* an expense entered in the transaction dialog has been stored
C6_Witness ==
  \E s \in Sessions :
    /\ caller[s] = "TransactionDialog" /\ op[s] = "add" /\ outcome[s] = Emitted
    /\ txn[s].incomeExpenses = "expense"
    /\ transactions[DocumentId(uid[s], txn[s].documentNumber)].gross = 6
    /\ transactions[DocumentId(uid[s], txn[s].documentNumber)].net = 5

\* the standing-order dialog of session s has passed its field checks
StandingChecked(s) == caller[s] = "StandingDialog" /\ outcome[s] # Invalid

AddMonths(date, n) ==
  <<date[1] + ((date[2] + n) \div 12), (date[2] + n) % 12, date[3]>>

\* the anchor is a monthly entry on a day every month has
MonthlyAnchor == anchor.repeatInterval = "monthly" /\ anchor.date[3] <= 28

\* C8 (as stated): for a monthly anchor on a day at most 28 the next due date
\* is the same day of the following calendar month, and in updateNextDueDate a
\* set dayOfMonth replaces the day within that following month.
C8_DayOfMonthWithinNextMonth ==
  /\ MonthlyAnchor /\ dueDate # NoDate => dueDate = AddMonths(anchor.date, 1)
  /\ MonthlyAnchor /\ applied = 1 =>
       LET next == AddMonths(anchor.date, 1)
       IN entry.date = IF anchor.dayOfMonth # 0
                         THEN <<next[1], next[2], anchor.dayOfMonth>>
                         ELSE next

\* C8: for a monthly anchor on a day at most 28 the next due date is the same
\* day of the following calendar month (December rolls to January); in
\* updateNextDueDate a set dayOfMonth replaces the day within that following
\* month when the month has that many days, and otherwise the date runs over
\* into the month after it by the days in excess.
C8_DayOfMonthOrRollover ==
  /\ MonthlyAnchor /\ dueDate # NoDate => dueDate = AddMonths(anchor.date, 1)
  /\ MonthlyAnchor /\ applied = 1 =>
       LET next == AddMonths(anchor.date, 1)
           after == AddMonths(anchor.date, 2)
           length == DaysInMonth(next[1], next[2])
       IN entry.date = IF anchor.dayOfMonth = 0 THEN next
                       ELSE IF anchor.dayOfMonth <= length
                         THEN <<next[1], next[2], anchor.dayOfMonth>>
                         ELSE <<after[1], after[2], anchor.dayOfMonth - length>>

\* a dayOfMonth of 31 has run over the 30-day month that follows the anchor
C8_Witness ==
  /\ MonthlyAnchor /\ applied = 1 /\ dueDate # NoDate
  /\ anchor.date = <<2024, 2, 15>> /\ anchor.dayOfMonth = 31
  /\ entry.date = <<2024, 4, 1>>
  /\ dueDate = <<2024, 3, 15>>

\* C9: for a monthly anchor on the 31st of a month followed by a 30-day month,
\* calculateNextDueDate yields the 31st two calendar months after the anchor
\* (31 March gives 31 May); the due date is not in the 30-day month.
C9_ThirtyFirstSkipsShortMonth ==
  LET next == AddMonths(anchor.date, 1)
      after == AddMonths(anchor.date, 2)
  IN /\ anchor.repeatInterval = "monthly" /\ anchor.date[3] = 31
     /\ DaysInMonth(next[1], next[2]) = 30
     /\ dueDate # NoDate
     => /\ dueDate = <<after[1], after[2], 31>>
        /\ <<dueDate[1], dueDate[2]>> # <<next[1], next[2]>>

\* 31 March has given 31 May
C9_Witness ==
  /\ anchor.repeatInterval = "monthly"
  /\ anchor.date = <<2024, 2, 31>>
  /\ dueDate = <<2024, 4, 31>>

\* the label after `quarter` in the cycle Q1, Q2, Q3, Q4, Q1
Successor(quarter) ==
  CASE quarter = "Q1" -> "Q2"
    [] quarter = "Q2" -> "Q3"
    [] quarter = "Q3" -> "Q4"
    [] quarter = "Q4" -> "Q1"

RECURSIVE SuccessorTimes(_, _)
SuccessorTimes(quarter, n) ==
  IF n = 0 THEN quarter ELSE SuccessorTimes(Successor(quarter), n - 1)

\* the anchor is a quarterly entry on a day every month has
QuarterlyAnchor == anchor.repeatInterval = "quarterly" /\ anchor.date[3] <= 28

\* C10: for a quarterly anchor (day at most 28) the due date is three calendar
\* months after the anchor; each updateNextDueDate on an entry labelled Q1..Q4
\* advances the date by three months and moves the label to its successor in
\* the cycle, so four applications restore the label and advance the date by
\* twelve months.
C10_QuarterlyCycle ==
  /\ QuarterlyAnchor /\ dueDate # NoDate => dueDate = AddMonths(anchor.date, 3)
  /\ QuarterlyAnchor /\ anchor.quarter \in {"Q1", "Q2", "Q3", "Q4"} =>
       /\ entry.date = AddMonths(anchor.date, 3 * applied)
       /\ entry.quarter = SuccessorTimes(anchor.quarter, applied)
       /\ applied = 4 =>
            /\ entry.quarter = anchor.quarter
            /\ entry.date = <<anchor.date[1] + 1, anchor.date[2], anchor.date[3]>>

\* four applications on a Q3 entry of 15 November 2023
C10_Witness ==
  /\ QuarterlyAnchor /\ applied = 4 /\ dueDate = <<2024, 1, 15>>
  /\ anchor.date = <<2023, 10, 15>> /\ anchor.quarter = "Q3"
  /\ entry.quarter = "Q3" /\ entry.date = <<2024, 10, 15>>

(***************************************************************************)
(* Yearly standing orders (SpecSeq).                                       *)
(***************************************************************************)
\* C11: for a yearly standing order that passes the dialog's field checks,
\* the due date the dialog compares the current date with is the anchor's
\* month and day one calendar year after the anchor date.
C11_YearlyDueOneYearLater ==
  \A s \in Sessions :
    /\ StandingChecked(s) /\ txn[s].repeatInterval = "yearly"
    /\ nextDueDate[s] # NoDate
    => nextDueDate[s] = <<txn[s].date[1] + 1, txn[s].date[2], txn[s].date[3]>>

(***************************************************************************)
(* Properties of the report tables (SpecPdf).                              *)
(***************************************************************************)
\* the category a transaction counts under
BucketOf(t) == IF t.category = "" THEN "Other" ELSE t.category

\* the sum of gross over the entries of `list` that count under `bucket`
RECURSIVE BucketSum(_, _)
BucketSum(list, bucket) ==
  IF list = <<>> THEN 0
  ELSE (IF BucketOf(Head(list)) = bucket THEN Head(list).gross ELSE 0)
       + BucketSum(Tail(list), bucket)

RECURSIVE SumOfType(_, _)
SumOfType(list, type) ==
  IF list = <<>> THEN 0
  ELSE (IF Head(list).incomeExpenses = type THEN Head(list).gross ELSE 0)
       + SumOfType(Tail(list), type)

\* the totals a request for `year` answers with, 0 standing for no answer yet
IncomeOfYear(year) == IF year = 0 THEN 0 ELSE SumDocs(IncomeQuery(ViewUser, year))
ExpensesOfYear(year) == IF year = 0 THEN 0 ELSE SumDocs(ExpensesQuery(ViewUser, year))

\* C13: the reported balance equals total income minus total expenses, the
\* totals being the sums of gross over the transactions marked income and
\* expense: the report's rows REVENUE, COSTS and BALANCE carry the two sums
\* over the report's transactions and their difference, and the dashboard's
\* saldo is the difference of the sums its totalIncome and totalExpenses show.
C13_BalanceIsIncomeMinusExpenses ==
  /\ pdfCreated =>
       LET income == SumOfType(pdfTransactions, "income")
           expenses == SumOfType(pdfTransactions, "expense")
       IN /\ guvData[1] = <<"REVENUE", <<"€", " ">> \o ToFixed2(income)>>
          /\ guvData[2] = <<"COSTS", <<"€", " ">> \o ToFixed2(expenses)>>
          /\ guvData[3][1] = "BALANCE"
          /\ guvData[3][2] = (IF income < expenses
                                THEN <<"€", " ", "-", " ">> \o ToFixed2(expenses - income)
                                ELSE <<"€", " ">> \o ToFixed2(income - expenses))
  /\ \E yi, ye \in DashboardYears \cup {0} :
       /\ totalIncome = ToLocaleString(IncomeOfYear(yi))
       /\ totalExpenses = ToLocaleString(ExpensesOfYear(ye))
       /\ saldo = (IF IncomeOfYear(yi) < ExpensesOfYear(ye)
                     THEN <<"-", " ">> \o ToLocaleString(ExpensesOfYear(ye) - IncomeOfYear(yi))
                     ELSE ToLocaleString(IncomeOfYear(yi) - ExpensesOfYear(ye)))

\* an income of 100 and an expense of 40 stored for 2024 have given the
\* dashboard 100,00 / 40,00 / 60,00 and the yearly report the balance 60.00
C13_Witness ==
  /\ pending = {}
  /\ totalIncome = <<"1", "0", "0", ",", "0", "0">>
  /\ totalExpenses = <<"4", "0", ",", "0", "0">>
  /\ saldo = <<"6", "0", ",", "0", "0">>
  /\ pdfCreated
  /\ Len(pdfTransactions) = 2
  /\ guvData[1][2] = <<"€", " ", "1", "0", "0", ".", "0", "0">>
  /\ guvData[2][2] = <<"€", " ", "4", "0", ".", "0", "0">>
  /\ guvData[3][2] = <<"€", " ", "6", "0", ".", "0", "0">>

\* the characters 0 .. 9
DigitChars == {Digits[i] : i \in 1 .. 10}

\* `text` is digits, the separator `sep`, and exactly two digits, without a
\* sign; `grouping` is a character allowed between the leading digits
IsUnsignedAmount(text, sep, grouping) ==
  /\ Len(text) >= 4
  /\ text[1] \in DigitChars
  /\ text[Len(text) - 2] = sep
  /\ text[Len(text) - 1] \in DigitChars /\ text[Len(text)] \in DigitChars
  /\ \A i \in 1 .. Len(text) - 3 : text[i] \in DigitChars \cup {grouping}

\* C14: formatted amounts keep exactly two decimal places, and a negative
\* amount carries its sign after the currency symbol, separated from the
\* digits by a space: the report's rows read '€ x' or, below zero, '€ - x';
\* the dashboard's saldo reads 'x' or, below zero, '- x'; x unsigned.
C14_TwoDecimalsAndSignPlacement ==
  /\ pdfCreated =>
       \A i \in DOMAIN guvData :
         LET text == guvData[i][2]
             negative == i = 3 /\ SumOfType(pdfTransactions, "income")
                                    < SumOfType(pdfTransactions, "expense")
         IN /\ SubSeq(text, 1, 2) = <<"€", " ">>
            /\ IF negative
                 THEN /\ SubSeq(text, 3, 4) = <<"-", " ">>
                      /\ IsUnsignedAmount(SubSeq(text, 5, Len(text)), ".", "0")
                 ELSE IsUnsignedAmount(SubSeq(text, 3, Len(text)), ".", "0")
  /\ IsUnsignedAmount(totalIncome, ",", ".")
  /\ IsUnsignedAmount(totalExpenses, ",", ".")
  /\ IF ParseFormattedAmount(totalIncome) < ParseFormattedAmount(totalExpenses)
       THEN /\ SubSeq(saldo, 1, 2) = <<"-", " ">>
            /\ IsUnsignedAmount(SubSeq(saldo, 3, Len(saldo)), ",", ".")
       ELSE IsUnsignedAmount(saldo, ",", ".")

\* an income of 100 and an expense of 1234.56 have given the report the
\* balance '€ - 1134.56' and the dashboard the saldo '- 1.134,56'
C14_Witness ==
  /\ pdfCreated
  /\ guvData[3][2] = <<"€", " ", "-", " ", "1", "1", "3", "4", ".", "5", "6">>
  /\ pending = {}
  /\ saldo = <<"-", " ", "1", ".", "1", "3", "4", ",", "5", "6">>

(***************************************************************************)
(* Properties of the report names (SpecReports).                           *)
(***************************************************************************)
\* the base name the subscriber builds for `request` with `year` selected
BaseNameOf(request, year) ==
  IF request.reportType = "monthly"
    THEN <<"MONTHLY_REPORT", " ">> \o request.monthName \o <<" ">> \o DecimalDigits(year)
    ELSE <<"YEARLY_REPORT", " ">> \o DecimalDigits(year)

\* the k-th candidate name: the base name itself, then ' - 2', ' - 3', ...
Candidate(baseName, k) ==
  IF k = 1 THEN baseName ELSE baseName \o <<" ", "-", " ">> \o DecimalDigits(k)

NamesOf(list) == {list[i] : i \in DOMAIN list}

\* C15: the name a generated report gets is the base name when no report in
\* the list has it, and otherwise the base name with ' - k' for the smallest
\* k >= 2 whose name is unused; it differs from the name of every report in
\* the list, so that a second report generated under a base name the list
\* holds once is named base + ' - 2'.
C15_UniqueReportName ==
  [][\A i \in DOMAIN pendingReports :
       (pendingReports' = Without(pendingReports, i) /\ reportYear # 0
          /\ savingReports' # savingReports)
       => LET baseName == BaseNameOf(pendingReports[i], reportYear)
              name == reports'[Len(reports')]
          IN /\ reports' = Append(reports, name)
             /\ savingReports' = Append(savingReports, name)
             /\ name \notin NamesOf(reports)
             /\ \E k \in 1 .. Len(reports) + 1 :
                  /\ name = Candidate(baseName, k)
                  /\ \A j \in 1 .. k - 1 : Candidate(baseName, j) \in NamesOf(reports)
             /\ (baseName \in NamesOf(reports)
                   /\ Candidate(baseName, 2) \notin NamesOf(reports))
                => name = Candidate(baseName, 2)]_vars

\* two yearly reports for 2024 have been generated one after the other and
\* saved: they are named 'YEARLY_REPORT 2024' and 'YEARLY_REPORT 2024 - 2'
C15_Witness ==
  /\ generated = 2
  /\ reports = <<YearlyBase(2024), Suffixed(YearlyBase(2024), 2)>>
  /\ reportsCollection = reports

(***************************************************************************)
(* Properties of the chart (SpecViews).                                    *)
(***************************************************************************)
\* the stored documents of the dashboard's user dated in month `m` (1 .. 12)
\* of `year` and marked `type`
DocsOfMonth(year, m, type) ==
  {k \in DOMAIN transactions :
     /\ transactions[k].userId = ViewUser
     /\ transactions[k].date[1] = year /\ transactions[k].date[2] = m
     /\ transactions[k].incomeExpenses = type}

\* the sum of gross over the documents `ids`
RECURSIVE GrossOver(_)
GrossOver(ids) ==
  IF ids = {} THEN 0
  ELSE LET k == CHOOSE x \in ids : TRUE
       IN transactions[k].gross + GrossOver(ids \ {k})

\* C16: for each of the 12 months of the year asked for, income[m] is the
\* sum of gross of that month's income transactions and expenses[m] that of
\* its expense transactions; surplus[m] = max(income[m] - expenses[m], 0) and
\* deficit[m] = max(expenses[m] - income[m], 0), so both are non-negative, at
\* most one is non-zero, and surplus[m] - deficit[m] = income[m] - expenses[m].
C16_MonthlySeries ==
  chartYear # 0 =>
    /\ DOMAIN incomeData = 1 .. 12 /\ DOMAIN expensesData = 1 .. 12
    /\ DOMAIN saldoPositive = 1 .. 12 /\ DOMAIN saldoNegative = 1 .. 12
    /\ \A m \in 1 .. 12 :
         /\ incomeData[m] = GrossOver(DocsOfMonth(chartYear, m, "income"))
         /\ expensesData[m] = GrossOver(DocsOfMonth(chartYear, m, "expense"))
         /\ saldoPositive[m] >= 0 /\ saldoNegative[m] >= 0
         /\ saldoPositive[m] = 0 \/ saldoNegative[m] = 0
         /\ saldoPositive[m] - saldoNegative[m] = incomeData[m] - expensesData[m]
         /\ saldoPositive[m]
              = (IF incomeData[m] > expensesData[m] THEN incomeData[m] - expensesData[m] ELSE 0)
         /\ saldoNegative[m]
              = (IF expensesData[m] > incomeData[m] THEN expensesData[m] - incomeData[m] ELSE 0)

\* the chart of 2024 with a deficit in January and a surplus in March
C16_Witness ==
  /\ chartYear = 2024
  /\ incomeData[3] = 10000 /\ expensesData[3] = 4000
  /\ saldoPositive[3] = 6000 /\ saldoNegative[3] = 0
  /\ expensesData[1] = 123456 /\ saldoNegative[1] = 123456 /\ saldoPositive[1] = 0

(***************************************************************************)
(* Properties of the transaction list (SpecScope).                         *)
(***************************************************************************)
\* C17: getTransactions emits exactly the stored transactions whose userId
\* is the signed-in user's id, ordered by dateInMillis from newest to oldest.
C17_OwnNewestFirst ==
  \A c \in Clients :
    "transactions" \in received[c] =>
      LET list == returned[c].transactions
      IN /\ {list[i] : i \in DOMAIN list}
              = {transactions[k] : k \in WhereUserId(transactions, ClientUser[c])}
         /\ Len(list) = Cardinality(WhereUserId(transactions, ClientUser[c]))
         /\ \A i, j \in DOMAIN list :
              i < j => list[i].dateInMillis >= list[j].dateInMillis

(***************************************************************************)
(* Properties of ownership, budgets and default categories (SpecScope,     *)
(* SpecBudget, SpecSeed).                                                  *)
(***************************************************************************)
\* C18: data returned to a signed-in user never includes a record created by
\* another user: the transactions, budgets and categories a session has
\* received carry its user's id, and the reports it has received were written
\* by its user's sessions.
C18_OnlyOwnRecords ==
  \A c \in Clients :
    /\ \A i \in DOMAIN returned[c].transactions :
         returned[c].transactions[i].userId = ClientUser[c]
    /\ \A i \in DOMAIN returned[c].budgets :
         returned[c].budgets[i].userId = ClientUser[c]
    /\ \A i \in DOMAIN returned[c].categories :
         returned[c].categories[i].userId = ClientUser[c]
    /\ \A i \in DOMAIN returned[c].reports :
         reportWriters[returned[c].reports[i].id] = ClientUser[c]

\* C19: every budget entry in the budgets collection has amount greater than
\* 0, a non-empty title and a non-empty category.
C19_StoredBudgetsValid ==
  \A i \in DOMAIN budgets :
    budgets[i].amount > 0 /\ budgets[i].title # "" /\ budgets[i].category # ""

\* C20: across any number of runs of initializeCategories for a user, the
\* default categories are written for that user at most once.
C20_SeededOnce == \A u \in Users : seedWrites[u] <= 1

(***************************************************************************)
(* Properties of the preferences (SpecPrefs).                              *)
(***************************************************************************)
\* C21: after savePreferences(language, theme) has returned, the items
\* 'language' and 'theme' of local storage hold the encrypted values, and a
\* loadPreferences without a signed-in user that follows re-applies exactly
\* the language and the theme that were saved.
C21_EncryptedRoundTrip ==
  /\ lastPreference = "save" =>
       /\ storedLanguage = Encrypt(saved.language)
       /\ storedTheme = Encrypt(saved.theme)
  /\ (lastPreference = "loadStorage" /\ saved # NoPreferences) =>
       /\ appliedLanguage = Plain(saved.language)
       /\ appliedTheme = Plain(saved.theme)

(***************************************************************************)
(* Further properties of the transaction service (SpecSeq, Spec).          *)
(***************************************************************************)
\* C22: the observable returned by deleteTransaction emits or completes once
\* the document has been deleted, whether or not other transactions of the
\* user remain, so that the subscriber's reload of the list runs: a deletion
\* that has come to its end has not ended in an observable that never emits.
C22_DeleteEmits ==
  \A s \in Sessions :
    (op[s] = "delete" /\ pc[s] = "done") => outcome[s] # NeverEmits

\* an addTransaction call ends in this step with the counter written and the
\* transaction rejected by the field check or by the document write
AddFailsAfterCounter(s) ==
  /\ op[s] = "add" /\ pc'[s] = "done"
  /\ \/ pc[s] = "writeCounter" /\ counters' # counters
     \/ pc[s] = "writeDoc" /\ outcome'[s] # Emitted

C24_CounterCoversStored ==
  /\ [](\A u \in Users : \A k \in WhereUserId(transactions, u) :
          ParseInt(transactions[k].documentNumber) <= counters[u])
  /\ [][\A s \in Sessions :
          AddSucceeds(s) =>
            DocumentId(uid[s], txn[s].documentNumber) \notin DOMAIN transactions]_vars

\* the sum of the twelve monthly values of a chart series
MonthsTotal(data) ==
  data[1] + data[2] + data[3] + data[4] + data[5] + data[6]
    + data[7] + data[8] + data[9] + data[10] + data[11] + data[12]

\* the years whose getTotalIncome or getTotalExpenses counts document k
YearsCounting(k) ==
  {year \in DashboardYears :
     k \in IncomeQuery(transactions[k].userId, year)
             \cup ExpensesQuery(transactions[k].userId, year)}

\* C25: for every user and year the monthly income values of getChartData
\* add up to the amount of getTotalIncome and the monthly expense values to
\* the amount of getTotalExpenses, and every stored transaction is counted in
\* the totals of exactly one year.
C25_MonthsAddUpToTotals ==
  /\ \A u \in Users, year \in DashboardYears :
       /\ GetTotalIncome(u, year)
            = ServiceFormatAmount(MonthsTotal(GetChartData(u, year).income))
       /\ GetTotalExpenses(u, year)
            = ServiceFormatAmount(MonthsTotal(GetChartData(u, year).expenses))
  /\ \A k \in DOMAIN transactions : Cardinality(YearsCounting(k)) = 1

(***************************************************************************)
(* Properties of the categories view and the budget pages (SpecSeed,       *)
(* SpecPages).                                                             *)
(***************************************************************************)
\* C26: when deleteCategories is confirmed for a category of the user's
\* list, seeded or added, the category's document is removed and is no
\* longer among the user's categories.
C26_DeletedCategoryGone ==
  [][\A c \in Clients :
       removal'[c] # removal[c] =>
         \A i \in DOMAIN CategoriesOf(ClientUser[c])' :
           CategoriesOf(ClientUser[c])'[i] # removal'[c]]_vars

\* the entries at positions index * size to index * size + size - 1 of a list
PageOf(list, index, size) ==
  [i \in 1 .. (IF Len(list) <= index * size THEN 0
               ELSE IF Len(list) - index * size < size THEN Len(list) - index * size
               ELSE size) |-> list[index * size + i]]

\* C27: after any sequence of budget loads and page changes, the component
\* shows for page index p and page size s the entries at positions p*s to
\* p*s+s-1 of the user's full list of saving budgets and of the full list of
\* spending budgets.
C27_PageOfFullLists ==
  "budgets" \in received[PageClient] =>
    /\ savingBudgets
         = PageOf(OfType(returned[PageClient].budgets, "saving"), pageIndex, pageSize)
    /\ spendingBudgets
         = PageOf(OfType(returned[PageClient].budgets, "spending"), pageIndex, pageSize)

\* session s takes a step of a deleteTransaction in this step
DeleteStep(s) == op[s] = "delete" /\ InFlight(s) /\ pc'[s] # pc[s]

RecurrenceFields == {"repeatInterval", "dayOfMonth", "quarter"}

\* C29: a standing order is materialized at most once: no stored record
\* holds repeatInterval, dayOfMonth or quarter, a step of the program adds at
\* most one document to the collection, and a document is added only by the
\* document write that completes an addTransaction call, so one submitted
\* dialog yields at most one transaction and nothing creates transactions
\* for later intervals.
C29_MaterializedAtMostOnce ==
  /\ [](\A k \in DOMAIN transactions : DOMAIN transactions[k] \cap RecurrenceFields = {})
  /\ [][\A k \in DOMAIN transactions' \ DOMAIN transactions :
          /\ DOMAIN transactions' \ DOMAIN transactions = {k}
          /\ \E s \in Sessions :
               /\ AddSucceeds(s)
               /\ k = DocumentId(uid[s], txn[s].documentNumber)
               /\ \A r \in Sessions \ {s} : pc'[r] = pc[r]]_vars

\* a monthly standing order has been saved through the dialog: its one
\* transaction is stored without the recurrence fields and the call is over
C29_Witness ==
  \E s \in Sessions :
    /\ caller[s] = "StandingDialog" /\ op[s] = "add" /\ pc[s] = "done"
    /\ outcome[s] = Emitted /\ txn[s].repeatInterval = "monthly"
    /\ LET k == DocumentId(uid[s], txn[s].documentNumber)
       IN /\ k \in DOMAIN transactions
          /\ DOMAIN transactions[k] \cap RecurrenceFields = {}
          /\ transactions[k].date = ToISOString(txn[s].date)

(***************************************************************************)
(* Properties of the dashboard's totals under year changes (SpecViews).    *)
(***************************************************************************)
\* no getTotalIncome or getTotalExpenses response is outstanding
TotalsAnswered == \A request \in pending : request.kind = "chart"

\* C30: once all outstanding getTotalIncome and getTotalExpenses responses
\* have arrived, totalIncome and totalExpenses are the totals of the
\* selected year and saldo is their difference, whatever the order in which
\* the responses arrived.
C30_TotalsOfSelectedYear ==
  TotalsAnswered =>
    /\ totalIncome = GetTotalIncome(ViewUser, selectedYear)
    /\ totalExpenses = GetTotalExpenses(ViewUser, selectedYear)
    /\ saldo = UpdateSaldo(totalIncome, totalExpenses)

=============================================================================
